---- MODULE Spec2Model ----
(***************************************************************************)
(* The media preview subsystem of tootles: the memory and disk cache       *)
(* tiers (media/cache.py), the tiered coordinator MediaCache, the          *)
(* MediaLoader (media/loader.py) and the MediaManager facade               *)
(* (media/manager.py) with the renderer policy (media/renderer.py).        *)
(*                                                                         *)
(* Byte strings are modelled by their identity and their length: the       *)
(* record [of |-> i, size |-> n] is "the first n bytes of payload i".      *)
(* A payload is complete when the record is a member of Payloads; the      *)
(* empty byte string is the same value whatever it is a prefix of.         *)
(***************************************************************************)
EXTENDS Integers, Sequences, FiniteSets, TLC

\* ------------------------------------------------------------------ bounds
\* Number of coroutines calling DiskCache.set concurrently (crash model).
NumSetters == 2
\* Number of coroutines calling DiskCache.get and set concurrently.
NumCallers == 3
\* Largest value of the clock read by time.time() / used for file atimes.
MaxTime == 3
\* Number of coroutines calling the MediaLoader concurrently.
NumLoads == 6
\* Budget handed to MemoryCache(maxsize) in MB.
MemoryCacheMB == 1
\* Budget handed to DiskCache(cache_dir, max_size_mb) in MB.
DiskCacheMB == 2
\* Number of files the temp directory has room for.
MaxTempFiles == 1
\* Number of viewer processes the system lets run at a time.
MaxProcs == 1
\* Number of MediaLoaders one MediaManager constructs.
MaxLoaders == 2
\* Number of URLs handed to one preload_media call.
MaxUrls == 2
\* Number of coroutines calling the MediaManager concurrently.
NumCalls == 2

\* ------------------------------------------------------------- byte strings
MiB == 1024 * 1024
HalfMiB == 512 * 1024

EmptyBytes == [of |-> 0, size |-> 0]
PHalfA == [of |-> 1, size |-> HalfMiB]
PHalfB == [of |-> 2, size |-> HalfMiB]
POne == [of |-> 3, size |-> MiB]
PTwo == [of |-> 4, size |-> 2 * MiB]
PThree == [of |-> 5, size |-> 3 * MiB]

\* The complete byte strings callers pass to the caches.
Payloads == {EmptyBytes, PHalfA, PHalfB, POne, PTwo, PThree}

\* len(data)
Length(data) == data.size

\* "if data:" -- a bytes object is truthy when it is not empty; None is falsy.
None == [of |-> -1, size |-> -1]
Truthy(data) == data # None /\ Length(data) > 0

\* The first half of a byte string (what a write interrupted midway leaves).
FirstHalf(data) ==
    IF Length(data) \div 2 = 0 THEN EmptyBytes
    ELSE [of |-> data.of, size |-> Length(data) \div 2]

\* ---------------------------------------------------------------- cache keys
Urls == {"a.png", "b.mp4"}

\* A str is the sequence of its characters. The characters of a URL are
\* spelled out where it begins like a key prefix; the rest of a URL is
\* one symbol.
Chars(url) ==
    CASE url = "thumb_a.png" -> <<"t", "h", "u", "m", "b", "_", "a.png">>
      [] url = "full_a.png" -> <<"f", "u", "l", "l", "_", "a.png">>
      [] OTHER -> <<url>>

\* Mutant: full media is kept under the bare URL.
get_cache_key_Bare(url, is_thumbnail) ==
    (IF is_thumbnail THEN <<"t", "h", "u", "m", "b", "_">> ELSE <<>>) \o Chars(url)

\* MediaCache._get_cache_key: f"{prefix}{url}"
get_cache_key(url, is_thumbnail) ==
    (IF is_thumbnail THEN <<"t", "h", "u", "m", "b", "_">>
                     ELSE <<"f", "u", "l", "l", "_">>) \o Chars(url)

Keys == {get_cache_key(u, th) : u \in Urls, th \in BOOLEAN}

\* ------------------------------------------------------------------- state
VARIABLES
    memory_cache,   \* MemoryCache: [maxsize, cache, access_times, current_size]
    now,            \* the value time.time() last returned
    files,          \* the disk cache directory: path -> [data, atime]
    disk_lock,      \* DiskCache._lock: [holder, waiters]
    tasks,          \* the coroutines: task -> [pc, op, key, data, buf, ...]
    hist,           \* the last completed operation (observer)
    semaphore,      \* MediaLoader._semaphore: [value, waiters]
    client,         \* MediaLoader._client: "none" or "open"
    manager,        \* MediaManager: [loader, made, show_media_previews]
    external_viewer \* ExternalViewerManager and the temp directory it writes to

diskVars == <<files, disk_lock, tasks>>
loaderVars == <<semaphore, client, manager, external_viewer>>
vars == <<memory_cache, now, files, disk_lock, tasks, hist, semaphore, client, manager,
          external_viewer>>

\* ------------------------------------------------------------- MemoryCache
(* cache is the dict key -> {'data', 'size'} (its 'timestamp' field is     *)
(* never read and is left out); access_times is the dict key -> stamp,     *)
(* kept as the sequence of its items in insertion order, the order         *)
(* min() walks when stamps tie.                                            *)

\* MemoryCache.__init__
MemoryCacheInit(maxsize_mb) ==
    [maxsize |-> maxsize_mb * 1024 * 1024,
     cache |-> <<>>,
     access_times |-> <<>>,
     current_size |-> 0]

AccessKeys(mc) == {mc.access_times[i].key : i \in DOMAIN mc.access_times}

\* access_times[key] = stamp: an existing key keeps its place, a new one is
\* appended.
AccessPut(at, key, stamp) ==
    IF \E i \in DOMAIN at : at[i].key = key
    THEN [i \in DOMAIN at |->
            IF at[i].key = key THEN [key |-> key, stamp |-> stamp] ELSE at[i]]
    ELSE Append(at, [key |-> key, stamp |-> stamp])

\* del access_times[key]
AccessDel(at, key) == SelectSeq(at, LAMBDA e : e.key # key)

\* cache[key] = entry
DictPut(d, key, entry) ==
    [k \in (DOMAIN d) \cup {key} |-> IF k = key THEN entry ELSE d[k]]

\* del cache[key]
DictDel(d, key) == [k \in (DOMAIN d) \ {key} |-> d[k]]

\* min(access_times.keys(), key=lambda k: access_times[k]): the first key,
\* in dict order, whose stamp is minimal.
LruKey(at) ==
    LET i == CHOOSE i \in DOMAIN at :
                 /\ \A j \in DOMAIN at : at[i].stamp <= at[j].stamp
                 /\ \A j \in DOMAIN at : (j < i) => at[j].stamp > at[i].stamp
    IN at[i].key

\* MemoryCache._evict_lru
evict_lru(mc) ==
    IF mc.access_times = <<>> THEN mc
    ELSE LET lru_key == LruKey(mc.access_times)
         IN IF lru_key \in DOMAIN mc.cache
            THEN [mc EXCEPT
                    !.current_size = mc.current_size - mc.cache[lru_key].size,
                    !.cache = DictDel(mc.cache, lru_key),
                    !.access_times = AccessDel(mc.access_times, lru_key)]
            ELSE mc

\* The eviction loop of MemoryCache.set:
\*   while current_size + data_size > maxsize and len(cache) > 0: _evict_lru()
\* (a pass that evicts nothing would repeat forever; it is cut here)
RECURSIVE EvictLoop(_, _)
EvictLoop(mc, data_size) ==
    IF mc.current_size + data_size > mc.maxsize /\ DOMAIN mc.cache # {}
    THEN LET nx == evict_lru(mc)
         IN IF nx = mc THEN mc ELSE EvictLoop(nx, data_size)
    ELSE mc

\* Mutant: the store without the "only cache if data fits" test.
StoreAlways(mc, key, data, stamp) ==
    [mc EXCEPT
        !.cache = DictPut(mc.cache, key, [data |-> data, size |-> Length(data)]),
        !.access_times = AccessPut(mc.access_times, key, stamp),
        !.current_size = mc.current_size + Length(data)]

\* "Only cache if data fits": the store at the end of MemoryCache.set
StoreIfFits(mc, key, data, stamp) ==
    IF Length(data) <= mc.maxsize
    THEN [mc EXCEPT
            !.cache = DictPut(mc.cache, key, [data |-> data, size |-> Length(data)]),
            !.access_times = AccessPut(mc.access_times, key, stamp),
            !.current_size = mc.current_size + Length(data)]
    ELSE mc

\* Mutant: the entry is inserted first and room is made afterwards, so the
\* eviction may pick the entry just stored.
MemoryCache_set_InsertFirst(mc, key, data, stamp) ==
    EvictLoop(StoreIfFits(mc, key, data, stamp), 0)

\* MemoryCache.set(key, data), the clock reading stamp
MemoryCache_set(mc, key, data, stamp) ==
    StoreIfFits(EvictLoop(mc, Length(data)), key, data, stamp)

\* MemoryCache.get(key): the cache afterwards and the value returned
MemoryCache_get(mc, key, stamp) ==
    IF key \in DOMAIN mc.cache
    THEN [mc |-> [mc EXCEPT !.access_times = AccessPut(mc.access_times, key, stamp)],
          ret |-> mc.cache[key].data]
    ELSE [mc |-> mc, ret |-> None]

\* MemoryCache.clear
MemoryCache_clear(mc) ==
    [mc EXCEPT !.cache = <<>>, !.access_times = <<>>, !.current_size = 0]

\* --------------------------------------------------------------- DiskCache
(* The cache directory is the function files: path -> [data, atime].  A    *)
(* path is <<name, suffix>>; the SHA-256 of a key is kept as the key under  *)
(* a tag, one name per key (collisions are taken as negligible).           *)

\* hashlib.sha256(key.encode()).hexdigest()
sha256_hex(key) == <<"sha256", key>>

\* DiskCache._get_cache_path: cache_dir / f"{hash_key}.cache"
get_cache_path(key) == <<sha256_hex(key), ".cache">>

\* Mutant: the payload is written under the final name, with no temp file.
with_suffix_kept(path) == path

\* cache_path.with_suffix('.tmp')
with_suffix_tmp(path) == <<path[1], ".tmp">>

\* DiskCache.__init__: max_size_mb * 1024 * 1024
DiskMaxSize == DiskCacheMB * 1024 * 1024

\* cache_dir.glob("*.cache")
GlobCache(fs) == {p \in DOMAIN fs : p[2] = ".cache"}

\* path.unlink() / unlink(missing_ok=True)
Unlink(fs, path) == [p \in (DOMAIN fs) \ {path} |-> fs[p]]

\* Creating or replacing the file at path.
WriteFile(fs, path, f) ==
    [p \in (DOMAIN fs) \cup {path} |-> IF p = path THEN f ELSE fs[p]]

RECURSIVE SumFiles(_, _)
SumFiles(fs, ps) ==
    IF ps = {} THEN 0
    ELSE LET p == CHOOSE p \in ps : TRUE
         IN Length(fs[p].data) + SumFiles(fs, ps \ {p})

\* DiskCache._get_cache_size: the st_size of every *.cache file, summed
get_cache_size(fs) == SumFiles(fs, GlobCache(fs))

\* The lists cache_files can be after cache_files.sort(key=atime): the
\* *.cache files by ascending atime; glob's order, which the stable sort
\* keeps among equal atimes, is the file system's choice.
SortedCacheFiles(fs) ==
    LET S == GlobCache(fs)
        n == Cardinality(S)
    IN {ord \in [1..n -> S] :
            /\ \A i, j \in 1..n : (i # j) => ord[i] # ord[j]
            /\ \A i, j \in 1..n : (i < j) => fs[ord[i]].atime <= fs[ord[j]].atime}

\* "Remove files until we have enough space": the for loop of
\* _cleanup_if_needed over the sorted list, file_size being the st_size
\* taken when the list was built.
RECURSIVE RemoveLoop(_, _, _, _, _)
RemoveLoop(fs, sizes, cache_files, current_size, new_data_size) ==
    IF cache_files = <<>> \/ current_size + new_data_size <= DiskMaxSize
    THEN fs
    ELSE RemoveLoop(Unlink(fs, Head(cache_files)), sizes, Tail(cache_files),
                    current_size - sizes[Head(cache_files)], new_data_size)

\* DiskCache._cleanup_if_needed(new_data_size), for one sorted list
cleanup_if_needed(fs, new_data_size, cache_files) ==
    LET current_size == get_cache_size(fs)
        sizes == [p \in GlobCache(fs) |-> Length(fs[p].data)]
    IN IF current_size + new_data_size > DiskMaxSize
       THEN RemoveLoop(fs, sizes, cache_files, current_size, new_data_size)
       ELSE fs

\* aiofiles.open(temp_path, 'wb'): the file is created empty, or an
\* existing one is truncated (its atime stays).
OpenForWrite(fs, path, stamp) ==
    WriteFile(fs, path,
              [data |-> EmptyBytes,
               atime |-> IF path \in DOMAIN fs THEN fs[path].atime ELSE stamp])

\* f.write: the bytes written so far replace the file's content.
WriteBytes(fs, path, bytes) == WriteFile(fs, path, [fs[path] EXCEPT !.data = bytes])

\* temp_path.rename(cache_path): the inode moves, atime and all.
Rename(fs, src, dst) == Unlink(WriteFile(fs, dst, fs[src]), src)

\* cache_path.touch(): atime is set, and a missing file is created empty.
Touch(fs, path, stamp) ==
    WriteFile(fs, path,
              [data |-> IF path \in DOMAIN fs THEN fs[path].data ELSE EmptyBytes,
               atime |-> stamp])

\* DiskCache.clear: every *.cache file is unlinked
clear_files(fs) == [p \in (DOMAIN fs) \ GlobCache(fs) |-> fs[p]]

\* asyncio.Lock: free when nobody holds it and nobody queues for it;
\* release hands it to the waiters in arrival order.
LockFree(l) == l.holder = 0 /\ l.waiters = <<>>
LockNext(l, t) == l.holder = 0 /\ l.waiters # <<>> /\ Head(l.waiters) = t
Released(l) == [l EXCEPT !.holder = 0]

\* time.time(): the clock does not run backwards; two readings may tie.
Ticks(t) == {s \in {t, t + 1} : s <= MaxTime}

\* The observer: the operation completed last. For a get, data is the
\* byte string of the matching store on the same key (or URL) that
\* completed right before it (None when the get does not directly follow
\* such a store).
StoreOf(op) ==
    CASE op = "get" -> "set"
      [] op = "get_full" -> "store_full"
      [] op = "get_thumbnail" -> "store_thumbnail"
      [] OTHER -> "-"

Note(op, key, data, ret) ==
    [op |-> op, key |-> key, ret |-> ret,
     data |-> IF StoreOf(op) # "-"
              THEN (IF hist.op = StoreOf(op) /\ hist.key = key THEN hist.data ELSE None)
              ELSE data]

\* No URL: the url of a coroutine, or of a note, that is about no URL.
NoUrl == ""

NoOp == [op |-> "none", key |-> NoUrl, ret |-> None, data |-> None]

\* -------------------------------------------------------------- coroutines
MaxOf(a, b) == IF a >= b THEN a ELSE b
Tasks == 1..MaxOf(MaxOf(NumSetters, NumCallers), NumLoads)

\* A coroutine: where it is suspended (pc), the cache operation it is in
\* (op, key, data, buf: the bytes read), and the call that led there (top,
\* url), "none" when the cache tier is called directly; mgr is the
\* MediaManager call above that, par the coroutine that made this one with
\* create_task (0: none), ldr the MediaLoader _get_loader gave the call.
\* The meta block of an attachment: absent, or {'original': {'size': ..}}
\* with the size as it came from the server, a sequence of characters.
NoMeta == [present |-> FALSE, size |-> <<>>]
Meta(size) == [present |-> TRUE, size |-> size]

\* MediaAttachment(type, url, meta)
Attachment(url, type, meta) == [url |-> url, type |-> type, meta |-> meta]
NoAttachment == Attachment("", "", NoMeta)

IdleTask ==
    [pc |-> "idle", op |-> "none", key |-> None, data |-> None, buf |-> None,
     top |-> "none", url |-> NoUrl, prefer |-> FALSE,
     mgr |-> "none", att |-> NoAttachment, par |-> 0, ldr |-> 0]

\* ExternalViewerManager.__init__ where no viewer is configured and none
\* is installed: an empty registry, no temp file tracked. tmpdir is the
\* set of files in the temp directory, procs the viewer processes that
\* run, each a <<command, target>>.
NoViewers == [k \in {} |-> ""]
ExternalViewerInit ==
    [viewers |-> NoViewers, temp_files |-> <<>>, tmpdir |-> {}, procs |-> <<>>]

\* MediaManager.__init__: no loader yet; the configuration shows previews.
\* loader is the MediaLoader the manager holds, made the number of
\* MediaLoaders it has constructed: the n-th one is loader n.
ManagerInit == [loader |-> 0, made |-> 0, show_media_previews |-> TRUE]

\* The frame of a call of top on url.
Frame(top, url) == [IdleTask EXCEPT !.top = top, !.url = url]

\* MediaLoader.__init__: asyncio.Semaphore(5), no waiter.
DownloadSlots == 5
SemaphoreInit == [value |-> DownloadSlots, waiters |-> <<>>]

Init ==
    /\ memory_cache = MemoryCacheInit(MemoryCacheMB)
    /\ now = 0
    /\ files = <<>>
    /\ disk_lock = [holder |-> 0, waiters |-> <<>>]
    /\ tasks = [t \in Tasks |-> IdleTask]
    /\ hist = NoOp
    /\ semaphore = SemaphoreInit
    /\ client = "none"
    /\ manager = ManagerInit
    /\ external_viewer = ExternalViewerInit

\* ------------------------------------------------ MemoryCache, called directly
MemPayloads == {EmptyBytes, PHalfA, PHalfB, POne, PTwo}
MemKeys == {get_cache_key("a.png", TRUE), get_cache_key("a.png", FALSE)}

MemSet(key, data) ==
    \E stamp \in Ticks(now) :
        /\ memory_cache' = MemoryCache_set(memory_cache, key, data, stamp)
        /\ now' = stamp
        /\ hist' = Note("set", key, data, None)
        /\ UNCHANGED <<diskVars, loaderVars>>

MemGet(key) ==
    \E stamp \in Ticks(now) :
        LET r == MemoryCache_get(memory_cache, key, stamp)
        IN /\ memory_cache' = r.mc
           /\ now' = IF r.ret = None THEN now ELSE stamp
           /\ hist' = Note("get", key, None, r.ret)
           /\ UNCHANGED <<diskVars, loaderVars>>

MemClear ==
    /\ memory_cache' = MemoryCache_clear(memory_cache)
    /\ hist' = Note("clear", None, None, None)
    /\ UNCHANGED <<now, diskVars, loaderVars>>

MemNext ==
    \/ \E key \in MemKeys, data \in MemPayloads : MemSet(key, data)
    \/ \E key \in MemKeys : MemGet(key)
    \/ MemClear

SpecMem == Init /\ [][MemNext]_vars

\* ------------------------------------------------------------ media formats
IMAGE == "image"
VIDEO == "video"
AUDIO == "audio"
UNKNOWN == "unknown"

SUPPORTED_IMAGE_FORMATS == {"jpg", "jpeg", "png", "gif", "webp", "svg", "bmp", "tiff"}
SUPPORTED_VIDEO_FORMATS == {"mp4", "webm", "mov", "avi", "mkv", "m4v", "ogv"}
SUPPORTED_AUDIO_FORMATS == {"mp3", "ogg", "wav", "m4a", "aac", "flac", "opus"}
IMAGE_MIMETYPES ==
    {"image/jpeg", "image/png", "image/gif", "image/webp", "image/svg+xml",
     "image/bmp", "image/tiff"}
VIDEO_MIMETYPES ==
    {"video/mp4", "video/webm", "video/quicktime", "video/x-msvideo",
     "video/x-matroska", "video/ogg"}
AUDIO_MIMETYPES ==
    {"audio/mpeg", "audio/ogg", "audio/wav", "audio/mp4", "audio/aac",
     "audio/flac", "audio/opus"}

\* The URLs of the model: Path(url).suffix.lower().lstrip('.') and the type
\* mimetypes.guess_type(url) finds ("" when it finds none).
AllUrls == {"a.png", "b.mp4", "c.mp3", "d.ico", "e.bin", "f.jpg", "g.gif"}
Suffix(url) ==
    CASE url = "a.png" -> "png"
      [] url = "b.mp4" -> "mp4"
      [] url = "c.mp3" -> "mp3"
      [] url = "d.ico" -> "ico"
      [] url = "f.jpg" -> "jpg"
      [] url = "g.gif" -> "gif"
      [] url = "v.webm" -> "webm"
      [] url = "h.txt" -> "txt"
      [] url = "J.PNG" -> "png"
      [] url = "noext" -> ""
      [] OTHER -> "bin"
guess_type(url) ==
    CASE url = "a.png" -> "image/png"
      [] url = "b.mp4" -> "video/mp4"
      [] url = "c.mp3" -> "audio/mpeg"
      [] url = "d.ico" -> "image/vnd.microsoft.icon"
      [] url = "e.bin" -> "application/octet-stream"
      [] url = "f.jpg" -> "image/jpeg"
      [] url = "g.gif" -> "image/gif"
      [] url = "v.webm" -> "video/webm"
      [] url = "h.txt" -> "text/plain"
      [] url = "J.PNG" -> "image/png"
      [] OTHER -> ""

\* guessed_type.startswith('image/') and so on: the part before the slash.
MajorType(mimetype) ==
    CASE mimetype \in {"image/png", "image/jpeg", "image/gif",
                       "image/vnd.microsoft.icon"} -> "image"
      [] mimetype \in {"video/mp4", "video/webm"} -> "video"
      [] mimetype = "audio/mpeg" -> "audio"
      [] OTHER -> "other"

\* Mutant: the extension is looked at before the MIME type.
get_media_format_ExtensionFirst(url, mimetype) ==
    IF Suffix(url) \in SUPPORTED_IMAGE_FORMATS THEN IMAGE
    ELSE IF Suffix(url) \in SUPPORTED_VIDEO_FORMATS THEN VIDEO
    ELSE IF Suffix(url) \in SUPPORTED_AUDIO_FORMATS THEN AUDIO
    ELSE IF mimetype \in IMAGE_MIMETYPES THEN IMAGE
    ELSE IF mimetype \in VIDEO_MIMETYPES THEN VIDEO
    ELSE IF mimetype \in AUDIO_MIMETYPES THEN AUDIO
    ELSE IF MajorType(guess_type(url)) = "image" THEN IMAGE
    ELSE IF MajorType(guess_type(url)) = "video" THEN VIDEO
    ELSE IF MajorType(guess_type(url)) = "audio" THEN AUDIO
    ELSE UNKNOWN

\* get_media_format(url, mimetype); mimetype "" stands for None.
get_media_format(url, mimetype) ==
    IF mimetype \in IMAGE_MIMETYPES THEN IMAGE
    ELSE IF mimetype \in VIDEO_MIMETYPES THEN VIDEO
    ELSE IF mimetype \in AUDIO_MIMETYPES THEN AUDIO
    ELSE IF Suffix(url) \in SUPPORTED_IMAGE_FORMATS THEN IMAGE
    ELSE IF Suffix(url) \in SUPPORTED_VIDEO_FORMATS THEN VIDEO
    ELSE IF Suffix(url) \in SUPPORTED_AUDIO_FORMATS THEN AUDIO
    ELSE IF MajorType(guess_type(url)) = "image" THEN IMAGE
    ELSE IF MajorType(guess_type(url)) = "video" THEN VIDEO
    ELSE IF MajorType(guess_type(url)) = "audio" THEN AUDIO
    ELSE UNKNOWN

is_supported_format(url, mimetype) == get_media_format(url, mimetype) # UNKNOWN
can_display_inline(url, mimetype) == get_media_format(url, mimetype) = IMAGE

\* MediaLoader._is_image(url)
is_image(url) == get_media_format(url, "") = IMAGE

\* --------------------------------------------- formats, called directly
\* get_media_format(url, mimetype) is called.
GetMediaFormatCall(url, mimetype) ==
    /\ hist' = [op |-> "get_media_format", key |-> <<url, mimetype>>, data |-> None,
                ret |-> get_media_format(url, mimetype)]
    /\ UNCHANGED <<memory_cache, now, diskVars, loaderVars>>

\* is_supported_format(url, mimetype) is called.
IsSupportedFormatCall(url, mimetype) ==
    /\ hist' = [op |-> "is_supported_format", key |-> <<url, mimetype>>, data |-> None,
                ret |-> is_supported_format(url, mimetype)]
    /\ UNCHANGED <<memory_cache, now, diskVars, loaderVars>>

\* can_display_inline(url, mimetype) is called.
CanDisplayInlineCall(url, mimetype) ==
    /\ hist' = [op |-> "can_display_inline", key |-> <<url, mimetype>>, data |-> None,
                ret |-> can_display_inline(url, mimetype)]
    /\ UNCHANGED <<memory_cache, now, diskVars, loaderVars>>

\* The URLs and MIME types handed to the three functions: the URLs of the
\* model, a text file, an upper-case extension and no extension; no MIME
\* type, every known one, and some that are in no set.
FormatUrls == AllUrls \cup {"h.txt", "J.PNG", "noext"}
FormatMimetypes ==
    {""} \cup IMAGE_MIMETYPES \cup VIDEO_MIMETYPES \cup AUDIO_MIMETYPES
         \cup {"text/plain", "image/x-icon", "IMAGE/PNG", "application/octet-stream"}

FormatsNext ==
    \E url \in FormatUrls, mimetype \in FormatMimetypes :
        \/ GetMediaFormatCall(url, mimetype)
        \/ IsSupportedFormatCall(url, mimetype)
        \/ CanDisplayInlineCall(url, mimetype)

SpecFormats == Init /\ [][FormatsNext]_vars

\* ------------------------------------------------------------ MediaRenderer
\* Exceptions travel where return values do.
TimeoutError == [of |-> -6, size |-> -1]
MediaLoadError == [of |-> -2, size |-> -1]
MediaCacheError == [of |-> -3, size |-> -1]
ValueError == [of |-> -4, size |-> -1]
ExternalViewerError == [of |-> -5, size |-> -1]
Exceptions == {MediaLoadError, MediaCacheError, ValueError, ExternalViewerError}

\* The booleans open_media returns.
True == [of |-> -20, size |-> -1]
False == [of |-> -21, size |-> -1]

\* The widgets, by the class each is given.
ImagePreview == [of |-> -10, size |-> -1]
ImagePlaceholder == [of |-> -11, size |-> -1]
VideoPlaceholder == [of |-> -12, size |-> -1]
AudioPlaceholder == [of |-> -13, size |-> -1]
GenericPlaceholder == [of |-> -14, size |-> -1]
DisabledPlaceholder == [of |-> -15, size |-> -1]
Widgets ==
    {ImagePreview, ImagePlaceholder, VideoPlaceholder, AudioPlaceholder,
     GenericPlaceholder, DisabledPlaceholder}

\* int(text) raises ValueError unless text is an integer literal.
Digits == {"0", "1", "2", "3", "4", "5", "6", "7", "8", "9"}
IsIntLiteral(text) ==
    Len(text) > 0 /\ \A i \in 1..Len(text) : text[i] \in Digits

\* The meta lines of a placeholder: int(original['size']) when the
\* attachment has a meta block with a size.
MetaRaises(attachment) ==
    attachment.meta.present /\ ~IsIntLiteral(attachment.meta.size)

create_image_placeholder(attachment) ==
    IF MetaRaises(attachment) THEN ValueError ELSE ImagePlaceholder
create_video_placeholder(attachment) ==
    IF MetaRaises(attachment) THEN ValueError ELSE VideoPlaceholder
create_audio_placeholder(attachment) ==
    IF MetaRaises(attachment) THEN ValueError ELSE AudioPlaceholder

\* _create_image_widget: with bytes the inline image (built from the bytes
\* and the description only), else the placeholder.
create_image_widget(attachment, media_data) ==
    IF Truthy(media_data) THEN ImagePreview
    ELSE create_image_placeholder(attachment)

\* MediaRenderer.create_media_widget(attachment, media_data, size)
create_media_widget(attachment, media_data) ==
    LET media_format == get_media_format(attachment.url, attachment.type)
    IN IF media_format = IMAGE /\ can_display_inline(attachment.url, "")
       THEN create_image_widget(attachment, media_data)
       ELSE IF media_format = VIDEO THEN create_video_placeholder(attachment)
       ELSE IF media_format = AUDIO THEN create_audio_placeholder(attachment)
       ELSE GenericPlaceholder

\* get_media_widget ends: the widget is returned, or what building it
\* raised goes to the caller.
Rendered(t, fr, media_data) ==
    /\ tasks' = [tasks EXCEPT ![t] = IdleTask]
    /\ hist' = Note("get_media_widget", fr.att.url, None,
                    create_media_widget(fr.att, media_data))
    /\ UNCHANGED external_viewer

\* ---------------------------------------------------- ExternalViewerManager
\* The first program of the list that shutil.which finds, "" when it finds
\* none.
RECURSIVE FirstInstalled(_, _)
FirstInstalled(list, installed) ==
    IF list = <<>> THEN ""
    ELSE IF Head(list) \in installed THEN Head(list)
    ELSE FirstInstalled(Tail(list), installed)

ViewerKinds == {"image", "video", "audio"}

\* ExternalViewerManager._get_default_viewers, installed being the
\* programs shutil.which finds.
get_default_viewers(installed) ==
    LET image == FirstInstalled(<<"feh", "eog", "xviewer", "gwenview", "ristretto">>,
                                installed)
        player == FirstInstalled(<<"mpv", "vlc", "mplayer", "totem">>, installed)
        found == [k \in {k \in ViewerKinds :
                            IF k = "image" THEN image # "" ELSE player # ""} |->
                     IF k = "image" THEN image ELSE player]
    IN IF "xdg-open" \in installed
       THEN [k \in ViewerKinds |-> IF k \in DOMAIN found THEN found[k] ELSE "xdg-open"]
       ELSE found

\* Mutant: a URL whose kind has no viewer is handed to the generic opener.
get_viewer_for_url_Fallback(ev, url) ==
    LET media_format == get_media_format(url, "")
    IN IF media_format \in ViewerKinds /\ media_format \in DOMAIN ev.viewers
       THEN ev.viewers[media_format]
       ELSE "xdg-open"

\* ExternalViewerManager.get_viewer_for_url: "" stands for None.
get_viewer_for_url(ev, url) ==
    LET media_format == get_media_format(url, "")
    IN IF media_format \in ViewerKinds /\ media_format \in DOMAIN ev.viewers
       THEN ev.viewers[media_format]
       ELSE ""

\* tempfile.mkstemp: a name no file of the temp directory has.
TempNames == {<<"tmp", n>> : n \in 1..MaxTempFiles}
mkstemp(ev) ==
    CHOOSE f \in TempNames \ ev.tmpdir :
        \A g \in TempNames \ ev.tmpdir : f[2] <= g[2]

\* ExternalViewerManager.cleanup_temp_files, stuck being the files whose
\* unlink raises: those stay on disk and stay tracked.
cleanup_temp_files(ev, stuck) ==
    LET tracked == {ev.temp_files[i] : i \in DOMAIN ev.temp_files}
    IN [ev EXCEPT !.temp_files = SelectSeq(@, LAMBDA f : f \in stuck),
                  !.tmpdir = @ \ (tracked \ stuck)]

\* Mutant: MediaRenderer.open_external lets the dispatcher's exception pass.
OpenReturn_Raised(t, fr, ret) ==
    /\ tasks' = [tasks EXCEPT ![t] = IdleTask]
    /\ hist' = IF fr.mgr = "open_media_external"
               THEN Note("open_media_external", fr.url, None, ret)
               ELSE Note("open_media", fr.url, None, ret)

\* open_media returns ret to its caller (or raises it): to the caller of
\* the dispatcher, or to MediaRenderer.open_external, which turns every
\* Exception into False.
OpenReturn(t, fr, ret) ==
    /\ tasks' = [tasks EXCEPT ![t] = IdleTask]
    /\ hist' = IF fr.mgr = "open_media_external"
               THEN Note("open_media_external", fr.url, None,
                         IF ret \in Exceptions THEN False ELSE ret)
               ELSE Note("open_media", fr.url, None, ret)

\* Mutant: _open_from_data does not track the temp file it wrote.
open_media_Untracked(t, fr, media_data) ==
    LET viewer_cmd == get_viewer_for_url(external_viewer, fr.url)
    IN IF viewer_cmd = ""
       THEN OpenReturn(t, fr, False) /\ UNCHANGED external_viewer
       ELSE IF ~Truthy(media_data)
       THEN /\ tasks' = [tasks EXCEPT ![t] =
                    [fr EXCEPT !.pc = "launching", !.op = "open_media",
                               !.key = <<viewer_cmd, fr.url>>, !.data = None]]
            /\ UNCHANGED <<hist, external_viewer>>
       ELSE \/ /\ OpenReturn(t, fr, ExternalViewerError)
               /\ UNCHANGED external_viewer
            \/ /\ TempNames \ external_viewer.tmpdir # {}
               /\ LET temp_file == mkstemp(external_viewer)
                  IN /\ external_viewer' =
                           [external_viewer EXCEPT !.tmpdir = @ \cup {temp_file}]
                     /\ tasks' = [tasks EXCEPT ![t] =
                             [fr EXCEPT !.pc = "launching", !.op = "open_media",
                                        !.key = <<viewer_cmd, temp_file>>,
                                        !.data = None]]
               /\ UNCHANGED hist

\* ExternalViewerManager.open_media(url, media_data) up to its first
\* suspension: False when no viewer is registered for the URL's kind; with
\* bytes, _open_from_data makes a temp file, writes the bytes, tracks the
\* file (an error on the way removes the file and raises
\* ExternalViewerError); then _execute_viewer suspends in
\* create_subprocess_exec, the target being the temp file or the URL.
open_media(t, fr, media_data) ==
    LET viewer_cmd == get_viewer_for_url(external_viewer, fr.url)
    IN IF viewer_cmd = ""
       THEN OpenReturn(t, fr, False) /\ UNCHANGED external_viewer
       ELSE IF ~Truthy(media_data)
       THEN /\ tasks' = [tasks EXCEPT ![t] =
                    [fr EXCEPT !.pc = "launching", !.op = "open_media",
                               !.key = <<viewer_cmd, fr.url>>, !.data = None]]
            /\ UNCHANGED <<hist, external_viewer>>
       ELSE \/ /\ OpenReturn(t, fr, ExternalViewerError)
               /\ UNCHANGED external_viewer
            \/ /\ TempNames \ external_viewer.tmpdir # {}
               /\ LET temp_file == mkstemp(external_viewer)
                  IN /\ external_viewer' =
                           [external_viewer EXCEPT !.temp_files = Append(@, temp_file),
                                                   !.tmpdir = @ \cup {temp_file}]
                     /\ tasks' = [tasks EXCEPT ![t] =
                             [fr EXCEPT !.pc = "launching", !.op = "open_media",
                                        !.key = <<viewer_cmd, temp_file>>,
                                        !.data = None]]
               /\ UNCHANGED hist

\* ------------------------------------------------- MediaLoader, its helpers

\* Bytes that are no image: Image.open raises on them.
PJunk == [of |-> 6, size |-> HalfMiB]
\* A body above the 50 MB limit.
PHuge == [of |-> 7, size |-> 51 * MiB]

\* The answer to one client.get(url): a transport error, an error status,
\* or a body, with or without a content-length header.
Response(status, body, declared) ==
    [status |-> status, body |-> body, declared |-> declared]
NetworkError == Response("network_error", None, FALSE)
HttpError == Response("http_error", None, FALSE)
Ok(body) == Response("ok", body, TRUE)
OkUndeclared(body) == Response("ok", body, FALSE)

\* _download_media once the response is there: raise_for_status, the
\* content-length test, response.content; every failure is MediaLoadError.
download_media(resp) ==
    IF resp.status # "ok" THEN MediaLoadError
    ELSE IF resp.declared /\ Length(resp.body) > 50 * 1024 * 1024 THEN MediaLoadError
    ELSE resp.body

\* _process_thumbnail: a JPEG of at most 150x150 made from an image (its
\* size is scaled like the budgets of the model).
process_thumbnail(image_data) == [of |-> 10 + image_data.of, size |-> 256 * 1024]

\* _generate_thumbnail: the executor's result, None when it raised.
generate_thumbnail(image_data) ==
    IF image_data.of = PJunk.of THEN None ELSE process_thumbnail(image_data)

\* What the server of the model answers for each URL: an image or a
\* transport error; a video of 1 MiB or an error status; an audio file
\* above the limit, its length declared or not (a chunked response has no
\* content-length); bytes that are no image under an image URL; an image
\* above the limit, its length not declared; a small file of no known
\* format; an image that is always there; and so is any other URL (the
\* video v.webm).
Served(url) ==
    CASE url = "a.png" -> {Ok(PHalfA), NetworkError}
      [] url = "b.mp4" -> {Ok(POne), HttpError}
      [] url = "c.mp3" -> {Ok(PHuge), OkUndeclared(PHuge)}
      [] url = "d.ico" -> {Ok(PJunk)}
      [] url = "f.jpg" -> {OkUndeclared(PHuge)}
      [] url = "g.gif" -> {Ok(PHalfB)}
      [] OTHER -> {Ok(PHalfB)}
Responses == UNION {Served(url) : url \in AllUrls}

LoaderCalls == {"load_media", "load_thumbnail"}

\* The frame fr is back in the loader's own code at pc, holding data.
Resume(t, fr, pc, data) ==
    tasks' = [tasks EXCEPT ![t] =
                 [fr EXCEPT !.pc = pc, !.op = "none", !.key = None,
                            !.buf = None, !.data = data]]

\* A coroutine made by create_task is done: its result waits for gather.
ChildDone(t, fr, ret) ==
    /\ tasks' = [tasks EXCEPT ![t] =
            [IdleTask EXCEPT !.pc = "done", !.par = fr.par, !.top = fr.top,
                             !.url = fr.url, !.data = ret]]
    /\ UNCHANGED <<hist, external_viewer>>

\* load_media or load_thumbnail returns ret (or raises it) to its caller.
\* get_media_widget, get_media_data and open_media_external catch every
\* Exception of the loader and go on without bytes: to the renderer's
\* widget, to returning None, to MediaRenderer.open_external.
LoaderReturn(t, fr, ret) ==
    IF fr.par # 0 THEN ChildDone(t, fr, ret)
    ELSE IF fr.mgr = "get_media_widget"
    THEN Rendered(t, fr, IF ret \in Exceptions THEN None ELSE ret)
    ELSE IF fr.mgr = "get_media_data"
    THEN /\ tasks' = [tasks EXCEPT ![t] = IdleTask]
         /\ hist' = Note("get_media_data", fr.url, None,
                         IF ret \in Exceptions THEN None ELSE ret)
         /\ UNCHANGED external_viewer
    ELSE IF fr.mgr = "open_media_external"
    THEN open_media(t, fr, IF ret \in Exceptions THEN None ELSE ret)
    ELSE /\ tasks' = [tasks EXCEPT ![t] = IdleTask]
         /\ hist' = Note(fr.top, fr.url, None, ret)
         /\ UNCHANGED external_viewer

\* The except clause around the download: load_media raises MediaLoadError
\* from any Exception, load_thumbnail logs it and returns None.
Failed(t, fr) ==
    LoaderReturn(t, fr, IF fr.top = "load_media" THEN MediaLoadError ELSE None)

\* Mutant: leaving the block does not give the slot back.
Release_Lost(sem) == sem
\* Leaving "async with self._semaphore".
Release(sem) == [sem EXCEPT !.value = @ + 1]

\* With a slot taken (sem is the semaphore after that): _download_media
\* raises when there is no client, else suspends in client.get(url). The
\* client is the one of this step (client'): _get_loader may have made it
\* earlier in the same step.
Request(t, fr, sem) ==
    IF client' = "none"
    THEN /\ semaphore' = Release(sem)
         /\ Failed(t, fr)
    ELSE /\ semaphore' = sem
         /\ Resume(t, fr, "downloading", None)
         /\ UNCHANGED <<hist, external_viewer>>

\* A download block that takes no slot.
Acquire_NoSlot(t, fr) == Request(t, fr, semaphore)

\* Entering "async with self._semaphore": a free slot is taken at once,
\* else the coroutine queues for one.
Acquire(t, fr) ==
    IF semaphore.value > 0 /\ semaphore.waiters = <<>>
    THEN Request(t, fr, [semaphore EXCEPT !.value = @ - 1])
    ELSE /\ semaphore' = [semaphore EXCEPT !.waiters = Append(@, t)]
         /\ Resume(t, fr, "slot_wait", None)
         /\ UNCHANGED <<hist, external_viewer>>

\* get_full_media(url) has returned cached: load_media returns it when it
\* is truthy; load_thumbnail derives a thumbnail from it when the URL is an
\* image; else the download starts.
Looked(t, fr, cached) ==
    IF Truthy(cached) /\ fr.top = "load_media"
    THEN LoaderReturn(t, fr, cached) /\ UNCHANGED semaphore
    ELSE IF Truthy(cached) /\ is_image(fr.url)
    THEN Resume(t, fr, "thumb_cached", cached) /\ UNCHANGED <<hist, semaphore, external_viewer>>
    ELSE Acquire(t, fr)

\* store_full_media(url, data) has returned inside the download block:
\* the thumbnail is derived next (load_media: when asked for and the URL is
\* an image), else load_media returns data.
Stored(t, fr, data) ==
    IF fr.top = "load_thumbnail" \/ (fr.prefer /\ is_image(fr.url))
    THEN Resume(t, fr, "thumbnailing", data) /\ UNCHANGED <<hist, semaphore, external_viewer>>
    ELSE /\ semaphore' = Release(semaphore)
         /\ LoaderReturn(t, fr, data)

\* A DiskCache operation called from the loader is over.
LoaderResume(t, fr, op, data, ret) ==
    IF op = "get" THEN Looked(t, fr, ret)
    ELSE IF ret = MediaCacheError
    THEN semaphore' = Release(semaphore) /\ Failed(t, fr)
    ELSE Stored(t, fr, data)

\* -------------------------------------------------- DiskCache, called directly
(* A coroutine runs from one suspension point to the next in one step: the  *)
(* awaits that suspend are the aiofiles calls (open, write, close, read)    *)
(* and a contended lock; glob, stat, unlink, rename and touch run inline.   *)

Goto(t, pc) == tasks' = [tasks EXCEPT ![t].pc = pc]

\* The cache operation op(key, data) of coroutine t, entered from frame fr,
\* returns ret: a direct call ends there; a MediaCache call returns ret to
\* its own caller. get_full_media called by open_media_external: bytes go
\* to the external viewer, and with none the Loader is called next (taken
\* as a step of its own).
Return(t, fr, op, key, data, ret) ==
    IF fr.top \in LoaderCalls
    THEN LoaderResume(t, fr, op, data, ret)
    ELSE IF fr.par # 0
    THEN ChildDone(t, fr, ret) /\ UNCHANGED semaphore
    ELSE IF fr.mgr = "open_media_external"
    THEN /\ IF Truthy(ret)
            THEN open_media(t, fr, ret)
            ELSE /\ tasks' = [tasks EXCEPT ![t] =
                         [fr EXCEPT !.pc = "ome_load", !.op = "none",
                                    !.key = None, !.buf = None, !.data = None]]
                 /\ UNCHANGED <<hist, external_viewer>>
         /\ UNCHANGED semaphore
    ELSE /\ tasks' = [tasks EXCEPT ![t] = IdleTask]
         /\ hist' = IF fr.top = "none" THEN Note(op, key, data, ret)
                    ELSE Note(fr.top, fr.url, data, ret)
         /\ UNCHANGED <<semaphore, external_viewer>>

\* DiskCache.set once the lock is held: _cleanup_if_needed, then the
\* coroutine suspends in aiofiles.open(temp_path, 'wb').
SetLocked(t, data) ==
    \E cache_files \in SortedCacheFiles(files) :
        files' = cleanup_if_needed(files, Length(data), cache_files)

\* DiskCache.set(key, data) is entered from frame fr: the lock is taken if
\* it is free, else the coroutine queues for it.
DiskSetEnter(t, fr, key, data) ==
    /\ IF LockFree(disk_lock)
       THEN /\ disk_lock' = [disk_lock EXCEPT !.holder = t]
            /\ SetLocked(t, data)
            /\ tasks' = [tasks EXCEPT ![t] =
                    [fr EXCEPT !.pc = "set_open", !.op = "set",
                               !.key = key, !.data = data]]
       ELSE /\ disk_lock' = [disk_lock EXCEPT !.waiters = Append(@, t)]
            /\ tasks' = [tasks EXCEPT ![t] =
                    [fr EXCEPT !.pc = "set_wait", !.op = "set",
                               !.key = key, !.data = data]]
            /\ UNCHANGED files
    /\ UNCHANGED <<hist, semaphore, external_viewer>>

\* DiskCache.get(key) is entered from frame fr: cache_path.exists(); a
\* missing file is a miss, else the coroutine suspends in
\* aiofiles.open(cache_path, 'rb').
DiskGetEnter(t, fr, key) ==
    IF get_cache_path(key) \in DOMAIN files
    THEN /\ tasks' = [tasks EXCEPT ![t] =
                 [fr EXCEPT !.pc = "get_open", !.op = "get", !.key = key]]
         /\ UNCHANGED <<hist, semaphore, external_viewer>>
    ELSE Return(t, fr, "get", key, None, None)

\* DiskCache.clear() is entered from frame fr.
DiskClearEnter(t, fr) ==
    IF LockFree(disk_lock)
    THEN /\ files' = clear_files(files)
         /\ Return(t, fr, "clear", None, None, None)
         /\ UNCHANGED disk_lock
    ELSE /\ disk_lock' = [disk_lock EXCEPT !.waiters = Append(@, t)]
         /\ tasks' = [tasks EXCEPT ![t] = [fr EXCEPT !.pc = "clear_wait", !.op = "clear"]]
         /\ UNCHANGED <<files, hist, semaphore, external_viewer>>

\* DiskCache.set(key, data) is called.
DiskSetCall(t, key, data) ==
    /\ tasks[t].pc = "idle"
    /\ DiskSetEnter(t, IdleTask, key, data)
    /\ UNCHANGED <<memory_cache, now, client, manager>>

\* A queued set is handed the lock.
DiskSetWake(t) ==
    /\ tasks[t].pc = "set_wait"
    /\ LockNext(disk_lock, t)
    /\ disk_lock' = [holder |-> t, waiters |-> Tail(disk_lock.waiters)]
    /\ SetLocked(t, tasks[t].data)
    /\ Goto(t, "set_open")
    /\ UNCHANGED <<memory_cache, now, hist, loaderVars>>

\* aiofiles.open(temp_path, 'wb') has run.
DiskSetOpen(t) ==
    /\ tasks[t].pc = "set_open"
    /\ \E stamp \in Ticks(now) :
        /\ files' = OpenForWrite(files, with_suffix_tmp(get_cache_path(tasks[t].key)), stamp)
        /\ now' = stamp
    /\ Goto(t, "set_write")
    /\ UNCHANGED <<memory_cache, disk_lock, hist, loaderVars>>

\* f.write(data) is under way: part of the bytes are in the temp file.
DiskSetWritePart(t) ==
    /\ tasks[t].pc = "set_write"
    /\ files' = WriteBytes(files, with_suffix_tmp(get_cache_path(tasks[t].key)),
                           FirstHalf(tasks[t].data))
    /\ Goto(t, "set_flush")
    /\ UNCHANGED <<memory_cache, now, disk_lock, hist, loaderVars>>

\* f.write(data) has written everything.
DiskSetWriteRest(t) ==
    /\ tasks[t].pc = "set_flush"
    /\ files' = WriteBytes(files, with_suffix_tmp(get_cache_path(tasks[t].key)),
                           tasks[t].data)
    /\ Goto(t, "set_close")
    /\ UNCHANGED <<memory_cache, now, disk_lock, hist, loaderVars>>

\* The file is closed; temp_path.rename(cache_path); the lock is released.
DiskSetRename(t) ==
    /\ tasks[t].pc = "set_close"
    /\ files' = Rename(files, with_suffix_tmp(get_cache_path(tasks[t].key)),
                       get_cache_path(tasks[t].key))
    /\ disk_lock' = Released(disk_lock)
    /\ Return(t, tasks[t], "set", tasks[t].key, tasks[t].data, None)
    /\ UNCHANGED <<memory_cache, now, client, manager>>

\* An I/O error at the suspension point the set is at (open, write, close
\* or rename fails): temp_path.unlink(missing_ok=True), MediaCacheError to
\* the caller; the lock is released.
DiskSetFail(t) ==
    /\ tasks[t].pc \in {"set_open", "set_write", "set_flush", "set_close"}
    /\ UNCHANGED <<client, manager>>
    /\ files' = Unlink(files, with_suffix_tmp(get_cache_path(tasks[t].key)))
    /\ disk_lock' = Released(disk_lock)
    /\ Return(t, tasks[t], "set", tasks[t].key, tasks[t].data, MediaCacheError)
    /\ UNCHANGED <<memory_cache, now>>

\* DiskCache.get(key) is called.
DiskGetCall(t, key) ==
    /\ tasks[t].pc = "idle"
    /\ DiskGetEnter(t, IdleTask, key)
    /\ UNCHANGED <<memory_cache, now, files, disk_lock, client, manager>>

\* The open has run. A file that is gone by now raises inside the try:
\* unlink(missing_ok=True), return None. Else the bytes of the opened file
\* are what f.read() returns.
DiskGetOpen(t) ==
    /\ tasks[t].pc = "get_open"
    /\ UNCHANGED <<client, manager>>
    /\ IF get_cache_path(tasks[t].key) \in DOMAIN files
       THEN /\ tasks' = [tasks EXCEPT ![t].pc = "get_close",
                                      ![t].buf = files[get_cache_path(tasks[t].key)].data]
            /\ UNCHANGED <<hist, semaphore, external_viewer>>
       ELSE Return(t, tasks[t], "get", tasks[t].key, None, None)
    /\ UNCHANGED <<memory_cache, now, files, disk_lock>>

\* The file is read and closed; cache_path.touch(); return data.
DiskGetTouch(t) ==
    /\ tasks[t].pc = "get_close"
    /\ UNCHANGED <<client, manager>>
    /\ \E stamp \in Ticks(now) :
        /\ files' = Touch(files, get_cache_path(tasks[t].key), stamp)
        /\ now' = stamp
    /\ Return(t, tasks[t], "get", tasks[t].key, None, tasks[t].buf)
    /\ UNCHANGED <<memory_cache, disk_lock>>

\* Mutant: the error of a failed read is passed on and the file is kept.
DiskGetFail_Raised(t) ==
    /\ tasks[t].pc \in {"get_open", "get_close"}
    /\ UNCHANGED <<client, manager>>
    /\ Return(t, tasks[t], "get", tasks[t].key, None, MediaCacheError)
    /\ UNCHANGED <<memory_cache, now, files, disk_lock>>

\* An I/O error inside the try of DiskCache.get (aiofiles.open, f.read,
\* the close or touch fails): cache_path.unlink(missing_ok=True) and
\* return None.
DiskGetFail(t) ==
    /\ tasks[t].pc \in {"get_open", "get_close"}
    /\ UNCHANGED <<client, manager>>
    /\ files' = Unlink(files, get_cache_path(tasks[t].key))
    /\ Return(t, tasks[t], "get", tasks[t].key, None, None)
    /\ UNCHANGED <<memory_cache, now, disk_lock>>

\* DiskCache.clear() is called.
DiskClearCall(t) ==
    /\ tasks[t].pc = "idle"
    /\ DiskClearEnter(t, IdleTask)
    /\ UNCHANGED <<memory_cache, now, client, manager>>

\* A queued clear is handed the lock, unlinks and releases.
DiskClearWake(t) ==
    /\ tasks[t].pc = "clear_wait"
    /\ LockNext(disk_lock, t)
    /\ disk_lock' = [holder |-> 0, waiters |-> Tail(disk_lock.waiters)]
    /\ files' = clear_files(files)
    /\ Return(t, tasks[t], "clear", None, None, None)
    /\ UNCHANGED <<memory_cache, now, client, manager>>

\* The process is killed while some coroutine is inside an operation and
\* is started again: the directory is what survives.
Crash ==
    /\ \E t \in Tasks : tasks[t].pc # "idle"
    /\ tasks' = [t \in Tasks |-> IdleTask]
    /\ disk_lock' = [holder |-> 0, waiters |-> <<>>]
    /\ memory_cache' = MemoryCacheInit(MemoryCacheMB)
    /\ hist' = Note("crash", None, None, None)
    /\ semaphore' = SemaphoreInit
    /\ client' = "none"
    /\ manager' = [manager EXCEPT !.loader = 0]
    /\ UNCHANGED <<now, files, external_viewer>>

DiskKeys == {get_cache_key("a.png", FALSE), get_cache_key("b.mp4", FALSE)}
DiskPayloads == {POne, PTwo, PThree}
\* The byte strings and the key of the concurrent callers.
ConcPayloads == {POne, PTwo}
SameKey == get_cache_key("a.png", FALSE)

\* One caller at a time: every operation runs to its end before the next.
DiskSeqNext ==
    \/ \E key \in DiskKeys, data \in DiskPayloads : DiskSetCall(1, key, data)
    \/ DiskSetOpen(1)
    \/ DiskSetWritePart(1)
    \/ DiskSetWriteRest(1)
    \/ DiskSetRename(1)
    \/ \E key \in DiskKeys : DiskGetCall(1, key)
    \/ DiskGetOpen(1)
    \/ DiskGetTouch(1)
    \/ DiskClearCall(1)

SpecDiskSeq == Init /\ [][DiskSeqNext]_vars

\* Callers of one DiskCache whose reads may fail: sets and gets of one key
\* by concurrent callers.
DiskReadNext ==
    \E t \in 1..NumSetters :
        \/ \E data \in ConcPayloads : DiskSetCall(t, SameKey, data)
        \/ DiskGetCall(t, SameKey)
        \/ DiskSetWake(t)
        \/ DiskSetOpen(t)
        \/ DiskSetWritePart(t)
        \/ DiskSetWriteRest(t)
        \/ DiskSetRename(t)
        \/ DiskGetOpen(t)
        \/ DiskGetTouch(t)
        \/ DiskGetFail(t)

SpecDiskRead == Init /\ [][DiskReadNext]_vars

\* One caller at a time on a DiskCache whose writes may fail.
DiskWriteNext ==
    \/ \E key \in DiskKeys, data \in ConcPayloads : DiskSetCall(1, key, data)
    \/ DiskSetOpen(1)
    \/ DiskSetWritePart(1)
    \/ DiskSetWriteRest(1)
    \/ DiskSetRename(1)
    \/ DiskSetFail(1)
    \/ \E key \in DiskKeys : DiskGetCall(1, key)
    \/ DiskGetOpen(1)
    \/ DiskGetTouch(1)

SpecDiskWrite == Init /\ [][DiskWriteNext]_vars

\* Concurrent sets and clears on one key, and the process killed at any
\* point.
DiskCrashNext ==
    \/ \E t \in 1..NumSetters, data \in ConcPayloads : DiskSetCall(t, SameKey, data)
    \/ \E t \in 1..NumSetters :
           \/ DiskSetWake(t)
           \/ DiskSetOpen(t)
           \/ DiskSetWritePart(t)
           \/ DiskSetWriteRest(t)
           \/ DiskSetRename(t)
           \/ DiskClearCall(t)
           \/ DiskClearWake(t)
    \/ Crash

SpecDiskCrash == Init /\ [][DiskCrashNext]_vars

\* Concurrent gets and sets.
DiskConcNext ==
    \/ \E t \in 1..NumCallers, data \in ConcPayloads : DiskSetCall(t, SameKey, data)
    \/ \E t \in 1..NumCallers : DiskGetCall(t, SameKey)
    \/ \E t \in 1..NumCallers :
           \/ DiskSetWake(t)
           \/ DiskSetOpen(t)
           \/ DiskSetWritePart(t)
           \/ DiskSetWriteRest(t)
           \/ DiskSetRename(t)
           \/ DiskGetOpen(t)
           \/ DiskGetTouch(t)

SpecDiskConc == Init /\ [][DiskConcNext]_vars

\* ---------------------------------------------------------------- MediaCache
\* Mutant: thumbnails are routed by size like full media.
StoreThumbnail_BySize(t, url, data) ==
    /\ tasks[t].pc = "idle"
    /\ IF Length(data) < 1024 * 1024
       THEN /\ \E stamp \in Ticks(now) :
                /\ memory_cache' =
                       MemoryCache_set(memory_cache, get_cache_key(url, TRUE), data, stamp)
                /\ now' = stamp
            /\ hist' = Note("store_thumbnail", url, data, None)
            /\ UNCHANGED <<diskVars, semaphore, external_viewer>>
       ELSE /\ DiskSetEnter(t, Frame("store_thumbnail", url), get_cache_key(url, TRUE), data)
            /\ UNCHANGED <<memory_cache, now>>
    /\ UNCHANGED <<client, manager>>
\* MediaCache.store_thumbnail(url, data)
StoreThumbnail(t, url, data) ==
    /\ tasks[t].pc = "idle"
    /\ \E stamp \in Ticks(now) :
        /\ memory_cache' = MemoryCache_set(memory_cache, get_cache_key(url, TRUE), data, stamp)
        /\ now' = stamp
    /\ hist' = Note("store_thumbnail", url, data, None)
    /\ UNCHANGED <<diskVars, loaderVars>>

\* MediaCache.get_thumbnail(url)
GetThumbnail(t, url) ==
    /\ tasks[t].pc = "idle"
    /\ \E stamp \in Ticks(now) :
        LET r == MemoryCache_get(memory_cache, get_cache_key(url, TRUE), stamp)
        IN /\ memory_cache' = r.mc
           /\ now' = IF r.ret = None THEN now ELSE stamp
           /\ hist' = Note("get_thumbnail", url, None, r.ret)
    /\ UNCHANGED <<diskVars, loaderVars>>

\* MediaCache.store_full_media(url, data): under 1 MiB to the memory tier,
\* else to the disk tier.
StoreFullMedia(t, url, data) ==
    /\ tasks[t].pc = "idle"
    /\ IF Length(data) < 1024 * 1024
       THEN /\ \E stamp \in Ticks(now) :
                /\ memory_cache' =
                       MemoryCache_set(memory_cache, get_cache_key(url, FALSE), data, stamp)
                /\ now' = stamp
            /\ hist' = Note("store_full", url, data, None)
            /\ UNCHANGED <<diskVars, semaphore, external_viewer>>
       ELSE /\ DiskSetEnter(t, Frame("store_full", url), get_cache_key(url, FALSE), data)
            /\ UNCHANGED <<memory_cache, now>>
    /\ UNCHANGED <<client, manager>>

\* MediaCache.get_full_media(url): the memory tier first and, when that
\* gives nothing truthy, the disk tier.
get_full_media(t, fr) ==
    \E stamp \in Ticks(now) :
        LET r == MemoryCache_get(memory_cache, get_cache_key(fr.url, FALSE), stamp)
        IN /\ memory_cache' = r.mc
           /\ now' = IF r.ret = None THEN now ELSE stamp
           /\ IF Truthy(r.ret)
              THEN Return(t, fr, "get", None, None, r.ret)
              ELSE DiskGetEnter(t, fr, get_cache_key(fr.url, FALSE))

\* MediaCache.get_full_media(url) is called.
GetFullMedia(t, url) ==
    /\ tasks[t].pc = "idle"
    /\ get_full_media(t, Frame("get_full", url))
    /\ UNCHANGED <<files, disk_lock, client, manager>>

\* MediaCache.clear_all()
ClearAll(t) ==
    /\ tasks[t].pc = "idle"
    /\ memory_cache' = MemoryCache_clear(memory_cache)
    /\ DiskClearEnter(t, Frame("clear_all", NoUrl))
    /\ UNCHANGED <<now, client, manager>>

TierUrls == {"a.png"}
FullPayloads == {PHalfA, POne, PTwo}
ThumbPayloads == {PHalfB, POne}

\* One caller at a time on the tiered cache.
TierNext ==
    \/ \E url \in TierUrls, data \in FullPayloads : StoreFullMedia(1, url, data)
    \/ \E url \in TierUrls : GetFullMedia(1, url)
    \/ \E url \in TierUrls, data \in ThumbPayloads : StoreThumbnail(1, url, data)
    \/ \E url \in TierUrls : GetThumbnail(1, url)
    \/ ClearAll(1)
    \/ DiskSetOpen(1)
    \/ DiskSetWritePart(1)
    \/ DiskSetWriteRest(1)
    \/ DiskSetRename(1)
    \/ DiskGetOpen(1)
    \/ DiskGetTouch(1)

SpecTier == Init /\ [][TierNext]_vars

\* --------------------------------------------------------------- MediaLoader
\* MediaLoader.__aenter__: the HTTP client is made.
AEnter ==
    /\ client = "none"
    /\ client' = "open"
    /\ UNCHANGED <<memory_cache, now, diskVars, hist, semaphore, manager, external_viewer>>

\* The cache lookups that open load_media and load_thumbnail:
\* get_thumbnail(url) (load_media: when prefer_thumbnail), returned when
\* truthy, then get_full_media(url), memory tier first.
Lookup(t, fr, with_thumbnail) ==
    \E s1 \in Ticks(now) :
        LET r1 == IF with_thumbnail
                  THEN MemoryCache_get(memory_cache, get_cache_key(fr.url, TRUE), s1)
                  ELSE [mc |-> memory_cache, ret |-> None]
            now1 == IF r1.ret = None THEN now ELSE s1
        IN IF Truthy(r1.ret)
           THEN /\ memory_cache' = r1.mc
                /\ now' = now1
                /\ LoaderReturn(t, fr, r1.ret)
                /\ UNCHANGED <<files, disk_lock, semaphore>>
           ELSE \E s2 \in Ticks(now1) :
                LET r2 == MemoryCache_get(r1.mc, get_cache_key(fr.url, FALSE), s2)
                IN /\ memory_cache' = r2.mc
                   /\ now' = IF r2.ret = None THEN now1 ELSE s2
                   /\ IF Truthy(r2.ret)
                      THEN Looked(t, fr, r2.ret)
                      ELSE DiskGetEnter(t, fr, get_cache_key(fr.url, FALSE))
                   /\ UNCHANGED <<files, disk_lock>>

\* load_media(url, prefer_thumbnail) is called.
LoadMediaCall(t, url, prefer_thumbnail) ==
    /\ tasks[t].pc = "idle"
    /\ UNCHANGED <<client, manager>>
    /\ Lookup(t, [Frame("load_media", url) EXCEPT !.prefer = prefer_thumbnail],
              prefer_thumbnail)

\* load_thumbnail(url) is called.
LoadThumbnailCall(t, url) ==
    /\ tasks[t].pc = "idle"
    /\ UNCHANGED <<client, manager>>
    /\ Lookup(t, Frame("load_thumbnail", url), TRUE)

\* A queued load is handed a download slot.
SlotWake(t) ==
    /\ tasks[t].pc = "slot_wait"
    /\ semaphore.value > 0
    /\ Head(semaphore.waiters) = t
    /\ UNCHANGED <<client, manager>>
    /\ Request(t, tasks[t], [value |-> semaphore.value - 1,
                             waiters |-> Tail(semaphore.waiters)])
    /\ UNCHANGED <<memory_cache, now, files, disk_lock>>

\* client.get(url) is answered by resp, one of the answers the server has
\* for the URL. A failed download leaves the block
\* through the except clause; a body that is wanted (truthy and, for
\* load_thumbnail, of an image URL) goes to store_full_media; otherwise
\* None is returned.
DownloadDone(t, resp) ==
    /\ tasks[t].pc = "downloading"
    /\ resp \in Served(tasks[t].url)
    /\ LET fr == tasks[t]
           data == download_media(resp)
       IN IF data = MediaLoadError
          THEN /\ semaphore' = Release(semaphore)
               /\ Failed(t, fr)
               /\ UNCHANGED <<memory_cache, now, files, disk_lock>>
          ELSE IF ~(Truthy(data) /\ (fr.top = "load_media" \/ is_image(fr.url)))
          THEN /\ semaphore' = Release(semaphore)
               /\ LoaderReturn(t, fr, None)
               /\ UNCHANGED <<memory_cache, now, files, disk_lock>>
          ELSE IF Length(data) < 1024 * 1024
          THEN /\ \E stamp \in Ticks(now) :
                    /\ memory_cache' = MemoryCache_set(memory_cache,
                                            get_cache_key(fr.url, FALSE), data, stamp)
                    /\ now' = stamp
               /\ Stored(t, fr, data)
               /\ UNCHANGED <<files, disk_lock>>
          ELSE /\ DiskSetEnter(t, fr, get_cache_key(fr.url, FALSE), data)
               /\ UNCHANGED <<memory_cache, now>>
    /\ UNCHANGED <<client, manager>>

\* The thumbnail of a downloaded body is back from the executor: when
\* there is one it is stored and returned, else load_media returns the body
\* and load_thumbnail None. The slot is released.
ThumbDone(t) ==
    /\ tasks[t].pc = "thumbnailing"
    /\ LET fr == tasks[t]
           thumbnail == generate_thumbnail(fr.data)
       IN IF Truthy(thumbnail)
          THEN /\ \E stamp \in Ticks(now) :
                    /\ memory_cache' = MemoryCache_set(memory_cache,
                                            get_cache_key(fr.url, TRUE), thumbnail, stamp)
                    /\ now' = stamp
               /\ LoaderReturn(t, fr, thumbnail)
          ELSE /\ LoaderReturn(t, fr, IF fr.top = "load_media" THEN fr.data ELSE None)
               /\ UNCHANGED <<memory_cache, now>>
    /\ semaphore' = Release(semaphore)
    /\ UNCHANGED <<files, disk_lock, client, manager>>

\* load_thumbnail: the thumbnail of the cached media is back from the
\* executor: stored and returned when there is one, else the download
\* starts.
ThumbCachedDone(t) ==
    /\ tasks[t].pc = "thumb_cached"
    /\ UNCHANGED <<client, manager>>
    /\ LET fr == tasks[t]
           thumbnail == generate_thumbnail(fr.data)
       IN IF Truthy(thumbnail)
          THEN /\ \E stamp \in Ticks(now) :
                    /\ memory_cache' = MemoryCache_set(memory_cache,
                                            get_cache_key(fr.url, TRUE), thumbnail, stamp)
                    /\ now' = stamp
               /\ LoaderReturn(t, fr, thumbnail)
               /\ UNCHANGED semaphore
          ELSE /\ Acquire(t, fr)
               /\ UNCHANGED <<memory_cache, now>>
    /\ UNCHANGED <<files, disk_lock>>

\* The coroutine with the lowest number among those of S.
Lowest(S) == CHOOSE c \in S : \A d \in S : c <= d

\* preload_media's loop over urls: create_task(load_thumbnail(url)) for an
\* image URL, create_task(cache.get_full_media(url)) for the others; tk is
\* the coroutines so far, p the one inside preload_media. The new tasks
\* take the free coroutines in rising order.
RECURSIVE Spawn(_, _, _, _)
Spawn(tk, p, ldr, urls) ==
    IF urls = <<>> THEN tk
    ELSE LET c == Lowest({d \in Tasks \ {p} : tk[d].pc = "idle"})
             url == Head(urls)
         IN Spawn([tk EXCEPT ![c] =
                      [Frame(IF is_image(url) THEN "load_thumbnail" ELSE "get_full", url)
                          EXCEPT !.pc = "created", !.par = p, !.ldr = ldr]],
                  p, ldr, Tail(urls))

\* preload_media returns ret to its caller (or raises it); the tasks it
\* made are over. MediaManager.preload_media catches every Exception.
PreloadReturn(t, fr, ret) ==
    /\ tasks' = [c \in Tasks |->
                    IF c = t \/ tasks[c].par = t THEN IdleTask ELSE tasks[c]]
    /\ hist' = IF fr.mgr = "preload_media"
               THEN Note("MediaManager.preload_media", NoUrl, None,
                         IF ret \in Exceptions THEN None ELSE ret)
               ELSE Note("preload_media", NoUrl, None, ret)
    /\ UNCHANGED external_viewer

\* MediaLoader.preload_media(urls), entered from frame fr: one task per
\* URL, then the coroutine suspends in wait_for(gather(...)); with no URL
\* it returns at once.
preload_media(t, fr, urls) ==
    IF urls = <<>>
    THEN PreloadReturn(t, fr, None)
    ELSE /\ Cardinality({d \in Tasks \ {t} : tasks[d].pc = "idle"}) >= Len(urls)
         /\ tasks' = Spawn([tasks EXCEPT ![t] = [fr EXCEPT !.pc = "gathering"]],
                           t, fr.ldr, urls)
         /\ UNCHANGED <<hist, external_viewer>>

\* MediaLoader.preload_media(urls) is called.
LoaderPreloadCall(t, urls) ==
    /\ tasks[t].pc = "idle"
    /\ preload_media(t, Frame("preload_media", NoUrl), urls)
    /\ UNCHANGED <<memory_cache, now, files, disk_lock, semaphore, client, manager>>

\* The event loop starts a task of preload_media (the tasks start in the
\* order of their creation): it runs to its first suspension.
ChildStart(c) ==
    /\ tasks[c].pc = "created"
    /\ \A d \in Tasks :
           (tasks[d].pc = "created" /\ tasks[d].par = tasks[c].par) => c <= d
    /\ UNCHANGED <<client, manager>>
    /\ IF tasks[c].top = "load_thumbnail"
       THEN Lookup(c, tasks[c], TRUE)
       ELSE /\ get_full_media(c, tasks[c])
            /\ UNCHANGED <<files, disk_lock>>

\* Every task of the preload is done: gather(return_exceptions=True)
\* hands the results to wait_for and preload_media returns None.
Gathered(p) ==
    /\ tasks[p].pc = "gathering"
    /\ \A c \in Tasks : tasks[c].par = p => tasks[c].pc = "done"
    /\ PreloadReturn(p, tasks[p], None)
    /\ UNCHANGED <<memory_cache, now, files, disk_lock, semaphore, client, manager>>

\* The coroutine is inside "async with self._semaphore".
HoldsSlot(c) ==
    /\ tasks[c].top \in LoaderCalls
    /\ \/ tasks[c].pc \in {"downloading", "thumbnailing"}
       \/ tasks[c].op = "set"

\* Mutant: the TimeoutError of wait_for is not caught.
wait_for_timeout_Uncaught == TimeoutError
\* What preload_media makes of the TimeoutError of wait_for: it is logged.
wait_for_timeout == None

\* Mutant: the timeout ends preload_media and its tasks run on.
PreloadTimeout_TasksLeft(p) ==
    /\ tasks[p].pc = "gathering"
    /\ \E c \in Tasks : tasks[c].par = p /\ tasks[c].pc # "done"
    /\ tasks' = [c \in Tasks |->
                    IF c = p \/ (tasks[c].par = p /\ tasks[c].pc = "done")
                    THEN IdleTask ELSE tasks[c]]
    /\ hist' = Note("preload_media", NoUrl, None, wait_for_timeout)
    /\ UNCHANGED <<memory_cache, now, files, disk_lock, semaphore, client, manager,
                   external_viewer>>

\* The 10 seconds of wait_for are over with tasks still running: gather
\* is cancelled and so is every task not done. CancelledError passes the
\* "except Exception" clauses and leaves the "async with" blocks: slots
\* and the cache lock are given back, waiters leave their queues, the temp
\* file of a set that was writing stays.
PreloadTimeout(p) ==
    /\ tasks[p].pc = "gathering"
    /\ LET cancelled == {c \in Tasks : tasks[c].par = p /\ tasks[c].pc # "done"}
       IN /\ cancelled # {}
          /\ semaphore' =
                [value |-> semaphore.value + Cardinality({c \in cancelled : HoldsSlot(c)}),
                 waiters |-> SelectSeq(semaphore.waiters, LAMBDA c : c \notin cancelled)]
          /\ disk_lock' =
                [holder |-> IF disk_lock.holder \in cancelled THEN 0 ELSE disk_lock.holder,
                 waiters |-> SelectSeq(disk_lock.waiters, LAMBDA c : c \notin cancelled)]
    /\ PreloadReturn(p, tasks[p], wait_for_timeout)
    /\ UNCHANGED <<memory_cache, now, files, client, manager>>

\* Mutant: a cancelled coroutine keeps the cache lock it held.
Abandoned_LockKept(l, t) ==
    [l EXCEPT !.waiters = SelectSeq(@, LAMBDA c : c # t)]
\* The cache lock once coroutine t is cancelled: "async with self._lock"
\* releases it when t held it, and t leaves the queue when it waited.
Abandoned(l, t) ==
    [holder |-> IF l.holder = t THEN 0 ELSE l.holder,
     waiters |-> SelectSeq(l.waiters, LAMBDA c : c # t)]

\* Mutant: a cancelled coroutine keeps the download slot it held.
GivenBack_Kept(sem, t, held) ==
    [sem EXCEPT !.waiters = SelectSeq(@, LAMBDA c : c # t)]
\* The semaphore once coroutine t is cancelled: "async with
\* self._semaphore" gives the slot back when t held one, and t leaves the
\* queue when it waited for one.
GivenBack(sem, t, held) ==
    [value |-> IF held THEN sem.value + 1 ELSE sem.value,
     waiters |-> SelectSeq(sem.waiters, LAMBDA c : c # t)]

\* The points where a load is suspended: in the cache lookup's file read,
\* in the queue for a slot, in client.get, in the executor deriving a
\* thumbnail, in the queue for the cache lock and in the file writes of
\* DiskCache.set.
SuspensionPoints ==
    {"get_open", "get_close", "slot_wait", "downloading", "thumbnailing",
     "thumb_cached", "set_wait", "set_open", "set_write", "set_flush", "set_close"}

\* The task running load t is cancelled (task.cancel() by its owner) while
\* it is suspended: CancelledError is raised at the await, passes the
\* "except Exception" clauses of DiskCache.set and of the loader and leaves
\* the "async with" blocks. The temp file of a set that was writing stays
\* as it is; nothing is renamed.
Cancel(t) ==
    /\ tasks[t].top \in LoaderCalls
    /\ tasks[t].par = 0
    /\ tasks[t].pc \in SuspensionPoints
    /\ semaphore' = GivenBack(semaphore, t, HoldsSlot(t))
    /\ disk_lock' = Abandoned(disk_lock, t)
    /\ tasks' = [tasks EXCEPT ![t] = IdleTask]
    /\ hist' = Note("cancelled", tasks[t].url, None, None)
    /\ UNCHANGED <<memory_cache, now, files, client, manager, external_viewer>>

\* -------------------------------------------------------------- MediaManager
\* The configuration is edited: media.show_media_previews.
SetShowMediaPreviews(show) ==
    /\ manager.show_media_previews # show
    /\ manager' = [manager EXCEPT !.show_media_previews = show]
    /\ UNCHANGED <<memory_cache, now, diskVars, hist, semaphore, client, external_viewer>>

\* Mutant: every call makes a MediaLoader.
get_loader_Always ==
    /\ manager' = [manager EXCEPT !.loader = manager.made + 1, !.made = @ + 1]
    /\ client' = "open"
\* MediaManager._get_loader: the first call makes the MediaLoader and
\* enters it, later calls return that one. Nothing in it suspends: the
\* lock is free whenever it is reached and __aenter__ awaits nothing.
get_loader ==
    IF manager.loader = 0
    THEN /\ manager' = [manager EXCEPT !.loader = manager.made + 1, !.made = @ + 1]
         /\ client' = "open"
    ELSE UNCHANGED <<client, manager>>

\* Mutant: the setting is not looked at.
show_media_previews_Ignored(m) == TRUE
\* media_config.show_media_previews, as get_media_widget and preload_media
\* read it.
show_media_previews(m) == m.show_media_previews

\* get_media_widget(attachment, size, preload) is called: the disabled
\* placeholder when previews are off, the generic one for an unsupported
\* format; else, when preload is set, load_thumbnail(url) for size
\* "thumbnail" and load_media(url, prefer_thumbnail=False) otherwise, and
\* the renderer's widget.
GetMediaWidgetCall(t, attachment, size, preload) ==
    /\ tasks[t].pc = "idle"
    /\ LET fr == [Frame(IF size = "thumbnail" THEN "load_thumbnail" ELSE "load_media",
                        attachment.url)
                     EXCEPT !.mgr = "get_media_widget", !.att = attachment]
       IN IF ~show_media_previews(manager)
          THEN /\ tasks' = [tasks EXCEPT ![t] = IdleTask]
               /\ hist' = Note("get_media_widget", attachment.url, None, DisabledPlaceholder)
               /\ UNCHANGED <<memory_cache, now, files, disk_lock, loaderVars>>
          ELSE IF ~is_supported_format(attachment.url, attachment.type)
          THEN /\ tasks' = [tasks EXCEPT ![t] = IdleTask]
               /\ hist' = Note("get_media_widget", attachment.url, None, GenericPlaceholder)
               /\ UNCHANGED <<memory_cache, now, files, disk_lock, loaderVars>>
          ELSE IF ~preload
          THEN /\ Rendered(t, fr, None)
               /\ UNCHANGED <<memory_cache, now, files, disk_lock, loaderVars>>
          ELSE /\ get_loader
               /\ Lookup(t, [fr EXCEPT !.ldr = manager'.loader], size = "thumbnail")

\* MediaManager.preload_media(attachments) is called: nothing happens when
\* previews are off or the list is empty; else the URLs of a supported
\* format go to preload_media of the manager's loader.
ManagerPreloadCall(t, attachments) ==
    /\ tasks[t].pc = "idle"
    /\ IF ~show_media_previews(manager) \/ attachments = <<>>
       THEN /\ tasks' = [tasks EXCEPT ![t] = IdleTask]
            /\ hist' = Note("MediaManager.preload_media", NoUrl, None, None)
            /\ UNCHANGED <<client, manager, external_viewer>>
       ELSE /\ get_loader
            /\ LET supported == SelectSeq(attachments,
                                 LAMBDA att : is_supported_format(att.url, att.type))
                   urls == [i \in DOMAIN supported |-> supported[i].url]
               IN preload_media(t, [Frame("preload_media", NoUrl)
                                       EXCEPT !.mgr = "preload_media",
                                              !.ldr = manager'.loader],
                                urls)
    /\ UNCHANGED <<memory_cache, now, files, disk_lock, semaphore>>

\* get_media_data(url, prefer_thumbnail) is called: load_media on the
\* manager's loader, None when that raises.
GetMediaDataCall(t, url, prefer_thumbnail) ==
    /\ tasks[t].pc = "idle"
    /\ get_loader
    /\ Lookup(t, [Frame("load_media", url)
                     EXCEPT !.prefer = prefer_thumbnail, !.mgr = "get_media_data",
                            !.ldr = manager'.loader],
              prefer_thumbnail)

\* open_media_external(attachment, use_cached) is called: with use_cached
\* the bytes are looked up in the cache first; without it the viewer is
\* handed the URL only.
OpenMediaExternalCall(t, attachment, use_cached) ==
    /\ tasks[t].pc = "idle"
    /\ UNCHANGED <<client, manager>>
    /\ LET fr == [Frame("get_full", attachment.url)
                     EXCEPT !.mgr = "open_media_external", !.att = attachment]
       IN IF use_cached
          THEN /\ get_full_media(t, fr)
               /\ UNCHANGED <<files, disk_lock>>
          ELSE /\ open_media(t, fr, None)
               /\ UNCHANGED <<memory_cache, now, files, disk_lock, semaphore>>

\* open_media_external: the cache had no bytes, so load_media(url,
\* prefer_thumbnail=False) is called on the manager's loader.
OmeLoad(t) ==
    /\ tasks[t].pc = "ome_load"
    /\ get_loader
    /\ Lookup(t, [tasks[t] EXCEPT !.top = "load_media", !.prefer = FALSE,
                                  !.ldr = manager'.loader],
              FALSE)

\* The end of cleanup(): the loader reference is cleared and the
\* dispatcher removes its temp files, unlink raising for those of stuck.
CleanupEnd(t, stuck) ==
    /\ stuck \subseteq {external_viewer.temp_files[i] : i \in DOMAIN external_viewer.temp_files}
    /\ manager' = [manager EXCEPT !.loader = 0]
    /\ external_viewer' = cleanup_temp_files(external_viewer, stuck)
    /\ tasks' = [tasks EXCEPT ![t] = IdleTask]
    /\ hist' = Note("cleanup", None, None, None)

\* cleanup() is called: with a loader whose client is open it suspends in
\* client.aclose(); with none it goes on to the temp files at once.
CleanupCall(t, stuck) ==
    /\ tasks[t].pc = "idle"
    /\ IF manager.loader # 0 /\ client = "open"
       THEN /\ stuck = {}
            /\ tasks' = [tasks EXCEPT ![t] =
                    [Frame("cleanup", NoUrl) EXCEPT !.pc = "closing", !.mgr = "cleanup",
                                                  !.ldr = manager.loader]]
            /\ UNCHANGED <<hist, manager, external_viewer>>
       ELSE CleanupEnd(t, stuck)
    /\ UNCHANGED <<memory_cache, now, files, disk_lock, semaphore, client>>

\* client.aclose() is over: the loader forgets its client and cleanup()
\* goes on.
CleanupClosed(t, stuck) ==
    /\ tasks[t].pc = "closing"
    /\ client' = "none"
    /\ CleanupEnd(t, stuck)
    /\ UNCHANGED <<memory_cache, now, files, disk_lock, semaphore>>

\* The attachments handed to the manager: one per kind, one whose MIME
\* type and URL disagree, and meta blocks whose size is a number and is
\* "WxH" text.
SizeInBytes == <<"2", "0", "4", "8">>
SizeAsText == <<"6", "4", "0", "x", "4", "8", "0">>
Attachments ==
    {Attachment("a.png", "image", NoMeta),
     Attachment("a.png", "image", Meta(SizeInBytes)),
     Attachment("a.png", "image", Meta(SizeAsText)),
     Attachment("b.mp4", "video", NoMeta),
     Attachment("c.mp3", "audio", Meta(SizeInBytes)),
     Attachment("d.ico", "image", NoMeta),
     Attachment("e.bin", "image/png", NoMeta),
     Attachment("e.bin", "unknown", NoMeta)}
Sizes == {"thumbnail", "full"}
\* The step A within one reading of the clock.
AtOnce(A) == A /\ now' = now

\* One caller at a time on the manager, within one reading of the clock.
ManagerNext ==
    \/ \E attachment \in Attachments, size \in Sizes, preload \in BOOLEAN :
           AtOnce(GetMediaWidgetCall(1, attachment, size, preload))
    \/ \E show \in BOOLEAN : SetShowMediaPreviews(show)
    \/ \E resp \in Responses : AtOnce(DownloadDone(1, resp))
    \/ AtOnce(ThumbDone(1))
    \/ AtOnce(ThumbCachedDone(1))
    \/ AtOnce(DiskSetOpen(1))
    \/ DiskSetWritePart(1)
    \/ DiskSetWriteRest(1)
    \/ DiskSetRename(1)
    \/ DiskSetFail(1)
    \/ DiskGetOpen(1)
    \/ AtOnce(DiskGetTouch(1))

SpecManager == Init /\ [][ManagerNext]_vars

\* The attachments of the rendering model, one per URL: an image, a video
\* and an audio file told by their URLs, a file whose MIME type says image
\* and whose URL says nothing, and a text file. No meta block is malformed.
RenderAttachments ==
    {Attachment("a.png", "image", NoMeta),
     Attachment("b.mp4", "video", NoMeta),
     Attachment("c.mp3", "audio", Meta(SizeInBytes)),
     Attachment("e.bin", "image/png", NoMeta),
     Attachment("h.txt", "unknown", NoMeta)}

\* One caller at a time asks the manager for widgets, previews enabled,
\* within one reading of the clock.
RenderNext ==
    \/ \E attachment \in RenderAttachments, size \in Sizes, preload \in BOOLEAN :
           AtOnce(GetMediaWidgetCall(1, attachment, size, preload))
    \/ \E resp \in Responses : AtOnce(DownloadDone(1, resp))
    \/ AtOnce(ThumbDone(1))
    \/ AtOnce(ThumbCachedDone(1))
    \/ AtOnce(DiskSetOpen(1))
    \/ DiskSetWritePart(1)
    \/ DiskSetWriteRest(1)
    \/ DiskSetRename(1)
    \/ DiskSetFail(1)
    \/ DiskGetOpen(1)
    \/ AtOnce(DiskGetTouch(1))

SpecRender == Init /\ [][RenderNext]_vars

\* ------------------------------------- ExternalViewerManager, called directly
\* ExternalViewerManager(viewer_config) is constructed on a machine where
\* shutil.which finds the programs installed: the configured registry, or
\* the default one when the configuration is empty. (The instance before
\* tracked no temp file any more.)
NewExternalViewerManager(viewer_config, installed) ==
    /\ \A t \in Tasks : tasks[t].pc = "idle"
    /\ external_viewer.temp_files = <<>>
    /\ external_viewer' =
           [external_viewer EXCEPT
               !.viewers = IF DOMAIN viewer_config # {} THEN viewer_config
                           ELSE get_default_viewers(installed)]
    /\ hist' = Note("__init__", None, None, None)
    /\ UNCHANGED <<memory_cache, now, diskVars, semaphore, client, manager>>

\* open_media(url, media_data) is called.
OpenMediaCall(t, url, media_data) ==
    /\ tasks[t].pc = "idle"
    /\ open_media(t, Frame("open_media", url), media_data)
    /\ UNCHANGED <<memory_cache, now, files, disk_lock, semaphore, client, manager>>

\* create_subprocess_exec is over: the process runs and _execute_viewer
\* returns True, or the launch failed (no such program, no room for one
\* more process) and _execute_viewer logs that and returns False.
ExecDone(t, started) ==
    /\ tasks[t].pc = "launching"
    /\ IF started
       THEN /\ Len(external_viewer.procs) < MaxProcs
            /\ external_viewer' = [external_viewer EXCEPT !.procs = Append(@, tasks[t].key)]
            /\ OpenReturn(t, tasks[t], True)
       ELSE /\ OpenReturn(t, tasks[t], False)
            /\ UNCHANGED external_viewer
    /\ UNCHANGED <<memory_cache, now, files, disk_lock, semaphore, client, manager>>

\* The user closes a viewer.
ProcExit(i) ==
    /\ i \in DOMAIN external_viewer.procs
    /\ external_viewer' =
           [external_viewer EXCEPT
               !.procs = SubSeq(@, 1, i - 1) \o SubSeq(@, i + 1, Len(@))]
    /\ hist' = Note("exit", None, None, None)
    /\ UNCHANGED <<memory_cache, now, diskVars, semaphore, client, manager>>

\* cleanup_temp_files() is called; unlink raises for the files of stuck.
CleanupTempFilesCall(stuck) ==
    /\ stuck \subseteq {external_viewer.temp_files[i] : i \in DOMAIN external_viewer.temp_files}
    /\ external_viewer' = cleanup_temp_files(external_viewer, stuck)
    /\ hist' = Note("cleanup_temp_files", None, None, None)
    /\ UNCHANGED <<memory_cache, now, diskVars, semaphore, client, manager>>

\* The configurations and the sets of installed programs of the model.
ViewerConfigs == {NoViewers, [image |-> "display"]}
Installed == SUBSET {"eog", "mpv", "xdg-open"}
ViewerUrls == {"a.png", "b.mp4", "e.bin"}

\* One caller at a time on the dispatcher.
ViewerNext ==
    \/ \E viewer_config \in ViewerConfigs, installed \in Installed :
           NewExternalViewerManager(viewer_config, installed)
    \/ \E url \in ViewerUrls, media_data \in {None, EmptyBytes, PHalfA} :
           OpenMediaCall(1, url, media_data)
    \/ \E started \in BOOLEAN : ExecDone(1, started)
    \/ \E i \in 1..MaxProcs : ProcExit(i)
    \/ \E stuck \in SUBSET TempNames : CleanupTempFilesCall(stuck)

SpecViewer == Init /\ [][ViewerNext]_vars

\* Concurrent callers of one dispatcher with a viewer for every kind, and
\* cleanup_temp_files called at any point, no unlink failing.
TempNext ==
    \/ NewExternalViewerManager(NoViewers, {"xdg-open"})
    \/ \E t \in 1..NumSetters, url \in {"a.png", "b.mp4"}, media_data \in {None, PHalfA} :
           OpenMediaCall(t, url, media_data)
    \/ \E t \in 1..NumSetters, started \in BOOLEAN : ExecDone(t, started)
    \/ \E i \in 1..MaxProcs : ProcExit(i)
    \/ CleanupTempFilesCall({})

SpecTemp == Init /\ [][TempNext]_vars

\* There is a loader, or the manager may still construct one.
MayLoad == manager.loader # 0 \/ manager.made < MaxLoaders

\* One caller at a time on a manager that is cleaned up between calls and
\* used again: media are fetched, shown in external viewers and cleaned
\* up, within one reading of the clock.
CleanupNext ==
    \/ \E viewer_config \in ViewerConfigs :
           NewExternalViewerManager(viewer_config, {"xdg-open"})
    \/ \E prefer_thumbnail \in BOOLEAN :
           MayLoad /\ AtOnce(GetMediaDataCall(1, "a.png", prefer_thumbnail))
    \/ \E use_cached \in BOOLEAN :
           AtOnce(OpenMediaExternalCall(1, Attachment("a.png", "image", NoMeta), use_cached))
    \/ MayLoad /\ AtOnce(OmeLoad(1))
    \/ \E resp \in Responses : AtOnce(DownloadDone(1, resp))
    \/ AtOnce(ThumbDone(1))
    \/ \E started \in BOOLEAN : ExecDone(1, started)
    \/ \E i \in 1..MaxProcs : ProcExit(i)
    \/ \E stuck \in SUBSET TempNames : CleanupCall(1, stuck)
    \/ \E stuck \in SUBSET TempNames : CleanupClosed(1, stuck)

SpecCleanup == Init /\ [][CleanupNext]_vars

\* One caller at a time opens an image (kept in the memory tier) and a
\* video of 1 MiB (kept in the disk tier) in external viewers through the
\* manager, with and without use_cached, the registry being empty or the
\* default one of a system with xdg-open; downloads succeed or fail.
OpenAttachments ==
    {Attachment("a.png", "image", NoMeta), Attachment("b.mp4", "video", NoMeta)}
OpenNext ==
    \/ NewExternalViewerManager(NoViewers, {"xdg-open"})
    \/ \E attachment \in OpenAttachments, use_cached \in BOOLEAN :
           AtOnce(OpenMediaExternalCall(1, attachment, use_cached))
    \/ MayLoad /\ AtOnce(OmeLoad(1))
    \/ \E resp \in Responses : AtOnce(DownloadDone(1, resp))
    \/ AtOnce(DiskSetOpen(1))
    \/ DiskSetWritePart(1)
    \/ DiskSetWriteRest(1)
    \/ DiskSetRename(1)
    \/ DiskGetOpen(1)
    \/ AtOnce(DiskGetTouch(1))
    \/ \E started \in BOOLEAN : ExecDone(1, started)
    \/ \E i \in 1..MaxProcs : ProcExit(i)
    \/ tasks[1].pc = "idle" /\ CleanupTempFilesCall({})

SpecOpen == Init /\ [][OpenNext]_vars

\* The callers of the manager are the coroutines with the highest numbers;
\* the tasks of preload_media take the lowest free ones.
Callers == {t \in Tasks : t > Cardinality(Tasks) - NumCalls}
ImageAttachment == Attachment("a.png", "image", NoMeta)
UnknownAttachment == Attachment("e.bin", "unknown", NoMeta)
AttachmentLists == {<<>>, <<ImageAttachment>>, <<UnknownAttachment, ImageAttachment>>}

\* Concurrent callers of one MediaManager that is not cleaned up; within
\* one reading of the clock.
ManagerConcNext ==
    \/ \E t \in Callers :
           \/ \E size \in Sizes :
                  AtOnce(GetMediaWidgetCall(t, ImageAttachment, size, TRUE))
           \/ \E attachments \in AttachmentLists :
                  AtOnce(ManagerPreloadCall(t, attachments))
           \/ \E use_cached \in BOOLEAN :
                  AtOnce(OpenMediaExternalCall(t, ImageAttachment, use_cached))
           \/ \E prefer_thumbnail \in BOOLEAN :
                  AtOnce(GetMediaDataCall(t, "a.png", prefer_thumbnail))
    \/ \E t \in Tasks :
           \/ AtOnce(OmeLoad(t))
           \/ AtOnce(ChildStart(t))
           \/ \E resp \in Responses : AtOnce(DownloadDone(t, resp))
           \/ AtOnce(ThumbDone(t))
           \/ AtOnce(ThumbCachedDone(t))
           \/ AtOnce(Gathered(t))

SpecManagerConc == Init /\ [][ManagerConcNext]_vars

\* One caller at a time asks the manager for widgets and preloads, with
\* the previews switched off and on in between; the tasks of a preload
\* run concurrently.
PreviewsNext ==
    \/ \E show \in BOOLEAN : SetShowMediaPreviews(show)
    \/ \E attachment \in {ImageAttachment, UnknownAttachment},
          size \in Sizes, preload \in BOOLEAN :
           GetMediaWidgetCall(1, attachment, size, preload)
    \/ \E attachments \in AttachmentLists : ManagerPreloadCall(1, attachments)
    \/ \E t \in Tasks :
           \/ ChildStart(t)
           \/ \E resp \in Responses : DownloadDone(t, resp)
           \/ ThumbDone(t)
           \/ ThumbCachedDone(t)
    \/ Gathered(1)
    \/ PreloadTimeout(1)

SpecPreviews == Init /\ [][PreviewsNext]_vars

\* The URL of the loader model.
LoaderUrls == {"a.png"}

\* The callers: every third coroutine calls load_thumbnail (as the tasks
\* of preload_media do for image URLs), the others load_media, without and
\* with prefer_thumbnail. The loads run within one reading of the clock.
LoaderNext ==
    \/ AEnter
    \/ \E t \in 1..NumLoads, url \in LoaderUrls :
           \/ t % 3 = 2 /\ AtOnce(LoadThumbnailCall(t, url))
           \/ t % 3 # 2 /\ AtOnce(LoadMediaCall(t, url, t % 3 = 0))
    \/ \E t \in 1..NumLoads :
           \/ AtOnce(SlotWake(t))
           \/ \E resp \in Responses : AtOnce(DownloadDone(t, resp))
           \/ AtOnce(ThumbDone(t))
           \/ AtOnce(ThumbCachedDone(t))

SpecLoader == Init /\ [][LoaderNext]_vars

\* One caller at a time on a MediaLoader, entered or not, over every URL
\* of the model, with the disk tier's steps and its I/O errors, within one
\* reading of the clock.
LoadSeqNext ==
    \/ AEnter
    \/ \E url \in AllUrls, prefer_thumbnail \in BOOLEAN :
           AtOnce(LoadMediaCall(1, url, prefer_thumbnail))
    \/ \E url \in AllUrls : AtOnce(LoadThumbnailCall(1, url))
    \/ \E resp \in Responses : AtOnce(DownloadDone(1, resp))
    \/ AtOnce(ThumbDone(1))
    \/ AtOnce(ThumbCachedDone(1))
    \/ AtOnce(DiskSetOpen(1))
    \/ DiskSetWritePart(1)
    \/ DiskSetWriteRest(1)
    \/ DiskSetRename(1)
    \/ DiskSetFail(1)
    \/ DiskGetOpen(1)
    \/ AtOnce(DiskGetTouch(1))

SpecLoadSeq == Init /\ [][LoadSeqNext]_vars

\* The lists of URLs handed to preload_media: an image that is served or
\* not, bytes that do not decode, an image that is always served, a video.
PreloadUrls == {"a.png", "d.ico", "g.gif", "b.mp4"}
UrlLists == UNION {[1..n -> PreloadUrls] : n \in 0..MaxUrls}

\* One caller of MediaLoader.preload_media at a time, on a loader entered
\* or not; its tasks run concurrently and the timeout may strike at any
\* point. Within one reading of the clock.
PreloadNext ==
    \/ AEnter
    \/ \E urls \in UrlLists : LoaderPreloadCall(1, urls)
    \/ \E c \in 2..(MaxUrls + 1) :
           \/ AtOnce(ChildStart(c))
           \/ \E resp \in Responses : AtOnce(DownloadDone(c, resp))
           \/ AtOnce(ThumbDone(c))
           \/ AtOnce(ThumbCachedDone(c))
    \/ Gathered(1)
    \/ PreloadTimeout(1)

SpecPreload == Init /\ [][PreloadNext]_vars

\* preload_media with downloads that may never end: the lists are made of
\* an image and a video, and nothing makes a request end. What does not
\* stand still is the event loop's timer: wait_for's timeout fires when
\* the tasks are not done in time, and gather's result is delivered when
\* they are.
TimeoutUrls == {"a.png", "b.mp4"}
TimeoutLists == UNION {[1..n -> TimeoutUrls] : n \in 0..MaxUrls}
TimeoutNext ==
    \/ AEnter
    \/ \E urls \in TimeoutLists : LoaderPreloadCall(1, urls)
    \/ \E c \in 2..(MaxUrls + 1) :
           \/ AtOnce(ChildStart(c))
           \/ \E resp \in Responses : AtOnce(DownloadDone(c, resp))
           \/ AtOnce(ThumbDone(c))
           \/ AtOnce(ThumbCachedDone(c))
    \/ Gathered(1)
    \/ PreloadTimeout(1)

TimeoutFairness == WF_vars(Gathered(1) \/ PreloadTimeout(1))

SpecTimeout == Init /\ [][TimeoutNext]_vars /\ TimeoutFairness

\* The lists of URLs handed to preload_media next to the direct loads.
SlotLists == {<<>>, <<"a.png">>}

\* Loads called directly and through preload_media on one MediaLoader,
\* entered or not: more loads than slots, downloads that fail, owners that
\* cancel their load at any suspension point, the timeout of preload_media.
\* The direct loads are load_media calls, the task of preload_media is a
\* load_thumbnail; coroutine 1 is the one that also calls preload_media.
\* Within one reading of the clock.
SlotsNext ==
    \/ AEnter
    \/ \E t \in 1..NumLoads, url \in LoaderUrls :
           AtOnce(LoadMediaCall(t, url, FALSE))
    \/ \E urls \in SlotLists : LoaderPreloadCall(1, urls)
    \/ \E t \in 1..NumLoads :
           \/ AtOnce(ChildStart(t))
           \/ AtOnce(SlotWake(t))
           \/ \E resp \in Responses : AtOnce(DownloadDone(t, resp))
           \/ AtOnce(ThumbDone(t))
           \/ AtOnce(ThumbCachedDone(t))
           \/ Cancel(t)
    \/ Gathered(1)
    \/ PreloadTimeout(1)

SpecSlots == Init /\ [][SlotsNext]_vars

\* More load_media calls than slots on one MediaLoader, entered or not:
\* downloads that succeed or fail, owners that cancel their load at any
\* suspension point. Within one reading of the clock.
WaitNext ==
    \/ AEnter
    \/ \E t \in 1..NumLoads, url \in LoaderUrls :
           AtOnce(LoadMediaCall(t, url, FALSE))
    \/ \E t \in 1..NumLoads :
           \/ AtOnce(SlotWake(t))
           \/ \E resp \in Responses : AtOnce(DownloadDone(t, resp))
           \/ Cancel(t)

\* Fair scheduling of the loads: the event loop does not stand still
\* while a load that was handed a slot is ready to run or a request is in
\* flight (every request is answered in the end, by a response or by an
\* error: the client has a timeout). Calls and cancellations are up to the
\* callers: no fairness.
WaitFairness ==
    WF_vars(\E t \in 1..NumLoads :
                \/ AtOnce(SlotWake(t))
                \/ \E resp \in Responses : AtOnce(DownloadDone(t, resp)))

SpecWait == Init /\ [][WaitNext]_vars /\ WaitFairness

\* The URLs of the cancellation model: an image kept in the memory tier
\* and a video of 1 MiB kept in the disk tier.
CancelUrls == {"a.png", "b.mp4"}

\* Concurrent load_media and load_thumbnail calls on one MediaLoader,
\* entered or not, each of which its owner may cancel at any suspension
\* point; the disk tier's steps are taken one by one. Every coroutine calls
\* load_media, coroutine 1 load_thumbnail as well. Within one reading of
\* the clock.
CancelNext ==
    \/ AEnter
    \/ \E t \in 1..NumSetters, url \in CancelUrls :
           \/ \E prefer_thumbnail \in BOOLEAN :
                  AtOnce(LoadMediaCall(t, url, prefer_thumbnail))
           \/ t = 1 /\ AtOnce(LoadThumbnailCall(t, url))
    \/ \E t \in 1..NumSetters :
           \/ \E resp \in Responses : AtOnce(DownloadDone(t, resp))
           \/ AtOnce(ThumbDone(t))
           \/ AtOnce(ThumbCachedDone(t))
           \/ DiskSetWake(t)
           \/ AtOnce(DiskSetOpen(t))
           \/ DiskSetWritePart(t)
           \/ DiskSetWriteRest(t)
           \/ DiskSetRename(t)
           \/ DiskGetOpen(t)
           \/ AtOnce(DiskGetTouch(t))
           \/ Cancel(t)

SpecCancel == Init /\ [][CancelNext]_vars

\* An image and a video that the server always has, each of 512 KiB.
RefetchUrls == {"g.gif", "v.webm"}
RefetchAttachments ==
    {Attachment("g.gif", "image", NoMeta), Attachment("v.webm", "video", NoMeta)}

\* One caller at a time, on the loader (entered or not) and on the
\* manager's get_media_widget with preload, for URLs whose download always
\* succeeds. Within one reading of the clock.
RefetchNext ==
    \/ AEnter
    \/ \E url \in RefetchUrls, prefer_thumbnail \in BOOLEAN :
           AtOnce(LoadMediaCall(1, url, prefer_thumbnail))
    \/ \E url \in RefetchUrls : AtOnce(LoadThumbnailCall(1, url))
    \/ \E attachment \in RefetchAttachments, size \in Sizes :
           AtOnce(GetMediaWidgetCall(1, attachment, size, TRUE))
    \/ \E resp \in Responses : AtOnce(DownloadDone(1, resp))
    \/ AtOnce(ThumbDone(1))
    \/ AtOnce(ThumbCachedDone(1))

SpecRefetch == Init /\ [][RefetchNext]_vars

\* Concurrent callers of one MediaManager, one of which may call cleanup()
\* while the calls of the others are in progress; the manager is used
\* again afterwards. Within one reading of the clock.
CleanupConcNext ==
    \/ \E t \in Callers :
           \/ \E size \in Sizes :
                  MayLoad /\ AtOnce(GetMediaWidgetCall(t, ImageAttachment, size, TRUE))
           \/ \E prefer_thumbnail \in BOOLEAN :
                  MayLoad /\ AtOnce(GetMediaDataCall(t, "a.png", prefer_thumbnail))
           \/ CleanupCall(t, {})
           \/ CleanupClosed(t, {})
           \/ \E resp \in Responses : AtOnce(DownloadDone(t, resp))
           \/ AtOnce(ThumbDone(t))
           \/ AtOnce(ThumbCachedDone(t))

SpecCleanupConc == Init /\ [][CleanupConcNext]_vars

\* Two callers on the tiered cache, each inside one operation at a time.
ClearPayloads == {PHalfA, POne}
ClearNext ==
    \E t \in 1..NumSetters :
        \/ \E url \in TierUrls, data \in ClearPayloads : AtOnce(StoreFullMedia(t, url, data))
        \/ \E url \in TierUrls : AtOnce(GetFullMedia(t, url))
        \/ \E url \in TierUrls : AtOnce(StoreThumbnail(t, url, PHalfB))
        \/ \E url \in TierUrls : AtOnce(GetThumbnail(t, url))
        \/ ClearAll(t)
        \/ DiskClearWake(t)
        \/ DiskSetWake(t)
        \/ AtOnce(DiskSetOpen(t))
        \/ DiskSetWritePart(t)
        \/ DiskSetWriteRest(t)
        \/ DiskSetRename(t)
        \/ DiskGetOpen(t)
        \/ AtOnce(DiskGetTouch(t))

SpecClear == Init /\ [][ClearNext]_vars

\* One caller at a time on the tiered cache and on the loader over it, for
\* URLs that begin like a cache key: thumbnails of 1 MiB and full media of
\* 512 KiB are stored directly, loads ask for the full media.
AliasUrls == {"a.png", "thumb_a.png", "full_a.png"}
AliasNext ==
    \/ AEnter
    \/ \E url \in AliasUrls : StoreThumbnail(1, url, POne)
    \/ \E url \in AliasUrls : StoreFullMedia(1, url, PHalfA)
    \/ \E url \in AliasUrls : AtOnce(GetThumbnail(1, url))
    \/ \E url \in AliasUrls : AtOnce(GetFullMedia(1, url))
    \/ \E url \in AliasUrls : AtOnce(LoadMediaCall(1, url, FALSE))
    \/ \E resp \in Responses : AtOnce(DownloadDone(1, resp))

SpecAlias == Init /\ [][AliasNext]_vars

\* ------------------------------------------------------------------ claims
\* Sum of the byte lengths of the entries resident in the memory tier.
RECURSIVE SumSizes(_, _)
SumSizes(d, ks) ==
    IF ks = {} THEN 0
    ELSE LET k == CHOOSE k \in ks : TRUE
         IN Length(d[k].data) + SumSizes(d, ks \ {k})

ResidentBytes(mc) == SumSizes(mc.cache, DOMAIN mc.cache)

\* C1: after any sequence of MemoryCache get, set and clear calls the byte
\* lengths of the resident entries sum to at most the configured budget.
C1_MemoryWithinBudget ==
    ResidentBytes(memory_cache) <= memory_cache.maxsize

\* C1 witness: the budget is filled exactly while the accounted size has
\* drifted above it (a key was set twice and a later set evicted).
C1_Witness ==
    /\ ResidentBytes(memory_cache) = memory_cache.maxsize
    /\ memory_cache.current_size > memory_cache.maxsize

\* C3: in MemoryCache a get(key) that directly follows set(key, data)
\* returns data when len(data) is at most the budget and returns absent when
\* len(data) exceeds it.
C3_MemorySetThenGet ==
    (hist.op = "get" /\ hist.data # None) =>
        hist.ret = IF Length(hist.data) <= memory_cache.maxsize
                   THEN hist.data ELSE None

\* C3 witness: an oversized set, then a get of that key returning absent.
C3_Witness ==
    /\ hist.op = "get" /\ hist.data # None
    /\ Length(hist.data) > memory_cache.maxsize
    /\ hist.ret = None

\* C2: after any sequence of DiskCache set, get and clear calls the files
\* under final cache names total at most the disk budget (so a payload
\* larger than the budget is not admitted).
C2_DiskWithinBudget ==
    get_cache_size(files) <= DiskMaxSize

\* C4: in DiskCache a get(key) that directly follows set(key, data) returns
\* data unless len(data) exceeds the disk budget, and absent then.
C4_DiskSetThenGet ==
    (hist.op = "get" /\ hist.data # None) =>
        hist.ret = IF Length(hist.data) <= DiskMaxSize THEN hist.data ELSE None

\* C6: DiskCache.set is crash-atomic.  In every step, the process being
\* killed included, the file under a key's final name is afterwards absent,
\* or holds what it held before the step, or holds all the bytes of a set
\* in progress for that key; a partly written payload is never there.
C6_CrashAtomic ==
    [][\A key \in DiskKeys :
          LET p == get_cache_path(key)
          IN (p \in DOMAIN files') =>
                \/ p \in DOMAIN files /\ files'[p].data = files[p].data
                \/ \E t \in Tasks : /\ tasks[t].op = "set"
                                    /\ tasks[t].key = key
                                    /\ files'[p].data = tasks[t].data]_vars

\* C6 witness: the process was killed in the middle of a write: the temp
\* file holds part of a payload while the final name of the same key
\* still holds a complete one.
C6_Witness ==
    /\ hist.op = "crash"
    /\ \E key \in DiskKeys :
          LET p == get_cache_path(key)
              tmp == with_suffix_tmp(p)
          IN /\ tmp \in DOMAIN files
             /\ files[tmp].data \notin Payloads
             /\ p \in DOMAIN files
             /\ files[p].data \in Payloads \ {EmptyBytes}

\* C8: under any interleaving of concurrent set and get on one key, every
\* get returns absent or the complete payload of one of the sets.
C8_GetsSeeWholePayloads ==
    (hist.op = "get") => (hist.ret = None \/ hist.ret \in ConcPayloads)

\* C5: a get_full_media(url) that directly follows store_full_media(url,
\* data) returns bytes identical to data, whichever tier data went to and
\* whatever was stored for the URL before.
C5_TierRoundTrip ==
    (hist.op = "get_full" /\ hist.data # None) => hist.ret = hist.data

\* The loads that are inside client.get(url), waiting for the answer.
Downloading == {t \in Tasks : tasks[t].pc = "downloading"}

\* C7: at every moment, over all concurrent load_media and load_thumbnail
\* calls (those made by preload_media included) on one MediaLoader, at
\* most 5 network downloads are in flight.
C7_AtMostFiveDownloads ==
    Cardinality(Downloading) <= 5

\* C7 witness: five downloads are in flight while a sixth load, which
\* missed the cache as well, waits for a slot.
C7_Witness ==
    /\ Cardinality(Downloading) = 5
    /\ \E t \in Tasks : tasks[t].pc = "slot_wait"
    /\ semaphore.value = 0

\* C9: concurrent load_media calls for one URL that the cache does not
\* hold issue at most one network request for it: two of them are never
\* both waiting for an answer to a request for that URL.
C9_OneRequestPerUrl ==
    \A t1, t2 \in Downloading :
        (/\ tasks[t1].top = "load_media"
         /\ tasks[t2].top = "load_media"
         /\ tasks[t1].url = tasks[t2].url) => t1 = t2

\* C10: get_media_widget never raises and always returns a widget, whatever
\* the loader's outcome during preload and whatever the attachment.
C10_AlwaysAWidget ==
    hist.op = "get_media_widget" => hist.ret \in Widgets

\* Every failure of the loader during preload is absorbed: a call that
\* went through the loader and whose attachment has a clean meta block
\* ends with a widget.
C10_LoaderFailuresAbsorbed ==
    [][\A t \in Tasks :
          (/\ tasks[t].mgr = "get_media_widget"
           /\ tasks'[t].pc = "idle"
           /\ ~MetaRaises(tasks[t].att)) => hist'.ret \in Widgets]_vars

\* A download the specification counts as failed: a transport error, an
\* error status, or a body above 50 MiB.
DownloadFails(resp) ==
    resp.status # "ok" \/ Length(resp.body) > 50 * 1024 * 1024

\* The entries both tiers hold for a URL: the memory tier's two keys and
\* the file under the final name on disk.
EntriesOf(mc, fs, url) ==
    [full |-> IF get_cache_key(url, FALSE) \in DOMAIN mc.cache
              THEN mc.cache[get_cache_key(url, FALSE)].data ELSE None,
     thumb |-> IF get_cache_key(url, TRUE) \in DOMAIN mc.cache
               THEN mc.cache[get_cache_key(url, TRUE)].data ELSE None,
     disk |-> IF get_cache_path(get_cache_key(url, FALSE)) \in DOMAIN fs
              THEN fs[get_cache_path(get_cache_key(url, FALSE))].data ELSE None]

\* What tells a step of a call from a step that changes nothing: where
\* every coroutine is, and what the call completed last gave.
Moves == <<[t \in Tasks |-> tasks[t].pc], hist.op, hist.ret, client, semaphore>>

\* A call made on the loader itself, not through the manager.
Direct(t, top) == tasks[t].top = top /\ tasks[t].mgr = "none"

\* C12: when store_full_media fails with a cache write error inside
\* load_media, load_media still returns the downloaded payload: a
\* load_media call that ends while the payload is being stored ends by
\* returning it.
C12_StoreFailureStillReturnsPayload ==
    [][\A t \in Tasks :
          (Direct(t, "load_media") /\ tasks[t].op = "set" /\ tasks'[t].pc = "idle") =>
              (hist'.op = "load_media" /\ hist'.ret = tasks[t].data)]_Moves

\* C13: whenever the download inside load_media fails (network error,
\* error status, oversized payload, no transport) load_media raises
\* MediaLoadError, no other exception, and both tiers hold for the URL
\* what they held before: the step that ends a download either goes on
\* with a body of at most 50 MiB or ends the call, with that body or with
\* MediaLoadError and the entries untouched; a call made without a client
\* returns what the cache holds or raises MediaLoadError.
C13_DownloadFailureRaisesLoaderError ==
    [][\A t \in Tasks :
          /\ (/\ Direct(t, "load_media")
              /\ tasks[t].pc = "downloading"
              /\ tasks'[t].pc # "downloading") =>
                 IF tasks'[t].pc # "idle"
                 THEN Length(tasks'[t].data) <= 50 * 1024 * 1024
                 ELSE /\ hist'.op = "load_media"
                      /\ \/ /\ Truthy(hist'.ret)
                            /\ Length(hist'.ret) <= 50 * 1024 * 1024
                         \/ /\ hist'.ret = MediaLoadError
                            /\ EntriesOf(memory_cache', files', tasks[t].url)
                                 = EntriesOf(memory_cache, files, tasks[t].url)
          /\ (/\ tasks[t].pc = "idle" /\ client = "none" /\ client' = "none"
              /\ tasks'[t].pc = "idle"
              /\ hist'.op = "load_media") =>
                 \/ Truthy(hist'.ret)
                 \/ /\ hist'.ret = MediaLoadError
                    /\ EntriesOf(memory_cache', files', hist'.key)
                         = EntriesOf(memory_cache, files, hist'.key)]_Moves

\* The failures _download_media does detect (a transport error, an error
\* status, a declared length above the limit, no client) all end
\* load_media with MediaLoadError and leave the URL's entries alone: a
\* load_media call never ends with another exception or with None.
C13_DetectedFailuresRaiseLoaderError ==
    [][\A t \in Tasks :
          (Direct(t, "load_media") /\ tasks'[t].pc = "idle") =>
              /\ hist'.op = "load_media"
              /\ \/ Truthy(hist'.ret)
                 \/ /\ hist'.ret = MediaLoadError
                    /\ tasks[t].op = "none" =>
                          EntriesOf(memory_cache', files', tasks[t].url)
                            = EntriesOf(memory_cache, files, tasks[t].url)]_Moves

\* C14: whenever the download inside a foreground load_thumbnail fails,
\* load_thumbnail raises MediaLoadError. (For an image URL the download
\* of a body leads on to the store, so the call ends with the download
\* only when the download failed.)
C14_ThumbnailFailureRaisesLoaderError ==
    [][\A t \in Tasks :
          (/\ Direct(t, "load_thumbnail")
           /\ tasks[t].pc = "downloading"
           /\ tasks'[t].pc = "idle") =>
              (is_image(tasks[t].url) =>
                  (hist'.op = "load_thumbnail" /\ hist'.ret = MediaLoadError))]_Moves

\* C15: load_media and load_thumbnail never return and never cache a
\* downloaded payload above 50 MiB, declared or not.
C15_NothingAboveFiftyMiB ==
    /\ (hist.op \in LoaderCalls) => Length(hist.ret) <= 50 * 1024 * 1024
    /\ \A p \in GlobCache(files) : Length(files[p].data) <= 50 * 1024 * 1024
    /\ \A k \in DOMAIN memory_cache.cache :
           Length(memory_cache.cache[k].data) <= 50 * 1024 * 1024

\* No coroutine is inside a call.
AllIdle == \A t \in Tasks : tasks[t].pc = "idle"

\* The registry holds a viewer for the URL's classified kind.
Registered(url) == get_media_format(url, "") \in DOMAIN external_viewer.viewers

ViewerMoves == <<[t \in Tasks |-> tasks[t].pc], hist.op, hist.ret, external_viewer>>

\* C19: when the registry holds no viewer for the URL's kind, open_media
\* returns False at once, raises nothing, makes no temp file and starts no
\* process: a call never goes on to launch a viewer for such a URL, and the
\* call that returns leaves the dispatcher and the temp directory as they
\* were.
C19_NoViewerGivesFalse ==
    [][/\ (/\ AllIdle /\ AllIdle'
           /\ hist'.op = "open_media"
           /\ ~Registered(hist'.key)) =>
              (hist'.ret = False /\ external_viewer' = external_viewer)
       /\ \A t \in Tasks :
              (tasks[t].pc = "idle" /\ tasks'[t].pc = "launching") =>
                  Registered(tasks'[t].url)]_ViewerMoves

\* C19 witness: a viewer is registered for videos only, a process runs,
\* and open_media of an image URL has just returned False.
C19_Witness ==
    /\ hist.op = "open_media" /\ hist.ret = False
    /\ get_media_format(hist.key, "") = IMAGE
    /\ DOMAIN external_viewer.viewers = {"video", "audio"}
    /\ external_viewer.procs # <<>>
    /\ AllIdle

\* C20: when a viewer is registered but launching its process fails,
\* open_media raises ExternalViewerError: a call that ends in
\* create_subprocess_exec without a new process ends with that error.
C20_LaunchFailureRaises ==
    [][\A t \in Tasks :
          (/\ tasks[t].pc = "launching" /\ tasks[t].mgr = "none"
           /\ tasks'[t].pc = "idle"
           /\ external_viewer'.procs = external_viewer.procs) =>
              hist'.ret = ExternalViewerError]_ViewerMoves


\* What a step of cleanup() can change.
CleanupMoves == <<[t \in Tasks |-> tasks[t].pc], hist.op, manager, client, external_viewer>>

\* cleanup() returns in this step.
CleanupReturns ==
    /\ AllIdle'
    /\ hist'.op = "cleanup"
    /\ \A t \in Tasks : tasks[t].pc \in {"idle", "closing"}

\* C18: every cleanup() raises nothing and leaves the loader reference
\* cleared, the HTTP client closed and no temp file tracked by the
\* dispatcher; a cleanup() right after a cleanup() changes nothing.
C18_CleanupIdempotent ==
    [][CleanupReturns =>
          /\ hist'.ret = None
          /\ manager'.loader = 0
          /\ client' = "none"
          /\ external_viewer'.temp_files = <<>>
          /\ (AllIdle /\ hist.op = "cleanup") =>
                 (manager' = manager /\ client' = client
                    /\ external_viewer' = external_viewer)]_CleanupMoves

\* What does hold: cleanup() raises nothing, clears the loader reference
\* and closes the client, and the files still tracked afterwards are files
\* that were tracked before and are still in the temp directory.
C18_CleanupUpToStuckFiles ==
    [][CleanupReturns =>
          /\ hist'.ret = None
          /\ manager'.loader = 0
          /\ client' = "none"
          /\ \A i \in DOMAIN external_viewer'.temp_files :
                 /\ external_viewer'.temp_files[i] \in external_viewer'.tmpdir
                 /\ \E j \in DOMAIN external_viewer.temp_files :
                        external_viewer.temp_files[j] = external_viewer'.temp_files[i]]_CleanupMoves

\* What tells a step of a preload from a step that changes nothing.
PreloadMoves == <<[t \in Tasks |-> tasks[t].pc], hist.op, hist.ret>>

\* C16: MediaLoader.preload_media never raises: it returns None when its
\* tasks are done, when the timeout struck and when it had no URL. And on
\* an entered loader the task for an image that the server has ends with
\* the thumbnail, cached at that point, whatever became of the other URLs
\* of the call.
C16_PreloadSwallowsFailures ==
    [][/\ \A p \in Tasks :
             (tasks[p].pc = "gathering" /\ tasks'[p].pc = "idle") =>
                 (hist'.op = "preload_media" /\ hist'.ret = None)
       /\ (AllIdle /\ AllIdle' /\ hist'.op = "preload_media") => hist'.ret = None
       /\ \A c \in Tasks :
             (tasks[c].par # 0 /\ tasks[c].pc # "done" /\ tasks'[c].pc = "done"
                /\ client = "open") =>
                 (tasks[c].url = "g.gif" =>
                     /\ tasks'[c].data = process_thumbnail(PHalfB)
                     /\ EntriesOf(memory_cache', files', "g.gif").thumb =
                            process_thumbnail(PHalfB))]_PreloadMoves

\* C16 witness: a preload of two images is waiting for its tasks; the
\* first image was downloaded and did not decode, its task ended with
\* None; the task of the second ended with the thumbnail, which is cached.
C16_Witness ==
    /\ tasks[1].pc = "gathering" /\ tasks[1].top = "preload_media"
    /\ tasks[2].pc = "done" /\ tasks[2].par = 1 /\ tasks[2].data = None
    /\ EntriesOf(memory_cache, files, "d.ico").full = PJunk
    /\ tasks[3].pc = "done" /\ tasks[3].par = 1
    /\ tasks[3].data = process_thumbnail(PHalfB)
    /\ EntriesOf(memory_cache, files, "g.gif").thumb = process_thumbnail(PHalfB)

\* The calls that are under way on a MediaLoader.
Holders == {t \in Tasks : tasks[t].pc # "idle" /\ tasks[t].ldr # 0}

\* C17: on a manager that is not cleaned up, at most one MediaLoader is
\* ever constructed, and every call that was given a loader was given
\* that one, the loader the manager holds.
C17_OneLoaderForAll ==
    /\ manager.made <= 1
    /\ \A t \in Holders : tasks[t].ldr = 1 /\ manager.loader = 1

\* C17 witness: an open_media_external call and a task of a
\* preload_media call are inside their downloads at the same time, on the
\* one loader made, after a get_media_widget call completed.
C17_Witness ==
    /\ manager.made = 1
    /\ hist.op = "get_media_widget"
    /\ \E u \in Holders, c \in Holders :
          /\ tasks[u].mgr = "open_media_external" /\ tasks[u].pc = "downloading"
          /\ tasks[c].par # 0 /\ tasks[c].pc = "downloading"
          /\ tasks[tasks[c].par].mgr = "preload_media"

\* Where every coroutine is.
Pcs == [t \in Tasks |-> tasks[t].pc]

\* What a call on the manager can change outside the external viewer.
PreviewMoves ==
    <<Pcs, hist.op, hist.ret, manager, client, semaphore, memory_cache, files>>

\* C11: while show_media_previews is false, no get_media_widget and no
\* MediaManager.preload_media call gets past its first test: each returns
\* in the step of the call, get_media_widget the 'previews disabled'
\* placeholder and preload_media None, and that step constructs no loader,
\* opens no client, takes no download slot and leaves both cache tiers as
\* they were.
C11_DisabledPreviewsDoNothing ==
    [][(~manager.show_media_previews /\ ~manager'.show_media_previews) =>
          /\ \A t \in Tasks :
                (tasks[t].pc = "idle" /\ tasks'[t].pc # "idle") =>
                    (tasks'[t].mgr \notin {"get_media_widget", "preload_media"}
                       /\ tasks'[t].par = 0)
          /\ (Pcs' = Pcs /\ hist'.op \in {"get_media_widget", "MediaManager.preload_media"}) =>
                /\ hist'.ret = IF hist'.op = "get_media_widget"
                               THEN DisabledPlaceholder ELSE None
                /\ manager' = manager
                /\ client' = client
                /\ semaphore' = semaphore
                /\ memory_cache' = memory_cache
                /\ files' = files]_PreviewMoves

\* C11 witness: with the previews off, get_media_widget has returned the
\* 'previews disabled' placeholder on a manager that never had a loader:
\* there is still none, no client, and the cache is empty.
C11_Witness ==
    /\ ~manager.show_media_previews
    /\ hist.op = "get_media_widget" /\ hist.ret = DisabledPlaceholder
    /\ manager.loader = 0 /\ manager.made = 0
    /\ client = "none"
    /\ memory_cache.cache = <<>> /\ DOMAIN files = {}
    /\ AllIdle

\* The stamp access_times holds for a key.
StampOf(mc, key) ==
    LET i == CHOOSE i \in DOMAIN mc.access_times : mc.access_times[i].key = key
    IN mc.access_times[i].stamp

\* C23: MemoryCache is an LRU cache. A set and a get hit stamp the entry
\* with the clock's reading; the entries a set evicts are no younger than
\* the ones it leaves resident; and a set evicts nothing when the other
\* resident entries and the incoming item fit the budget together.
C23_LruSemantics ==
    [][/\ (hist'.op = "get" /\ hist'.ret # None) =>
             /\ DOMAIN memory_cache'.cache = DOMAIN memory_cache.cache
             /\ StampOf(memory_cache', hist'.key) = now'
       /\ hist'.op = "set" =>
             LET k == hist'.key
                 others == DOMAIN memory_cache.cache \ {k}
                 evicted == others \ DOMAIN memory_cache'.cache
             IN /\ k \in DOMAIN memory_cache'.cache => StampOf(memory_cache', k) = now'
                /\ \A e \in evicted, r \in others \ evicted :
                       StampOf(memory_cache, e) <= StampOf(memory_cache, r)
                /\ SumSizes(memory_cache.cache, others) + Length(hist'.data)
                       <= memory_cache.maxsize => evicted = {}]_memory_cache

\* C26: current_size is the sum of the byte lengths of the resident
\* entries, and the entry table and the access-time table have the same
\* keys.
C26_AccountedSizeIsResidentBytes ==
    /\ memory_cache.current_size = ResidentBytes(memory_cache)
    /\ DOMAIN memory_cache.cache = AccessKeys(memory_cache)

\* C27: a MemoryCache.set whose payload exceeds the budget leaves the
\* entries and the accounted size as they were.
C27_OversizedSetChangesNothing ==
    [][(hist'.op = "set" /\ Length(hist'.data) > memory_cache.maxsize) =>
          /\ memory_cache'.cache = memory_cache.cache
          /\ memory_cache'.current_size = memory_cache.current_size]_memory_cache

\* The kind a MIME type, an extension and the system's guess stand for,
\* UNKNOWN when they stand for none.
KindByMime(mimetype) ==
    CASE mimetype \in IMAGE_MIMETYPES -> IMAGE
      [] mimetype \in VIDEO_MIMETYPES -> VIDEO
      [] mimetype \in AUDIO_MIMETYPES -> AUDIO
      [] OTHER -> UNKNOWN
KindByExtension(extension) ==
    CASE extension \in SUPPORTED_IMAGE_FORMATS -> IMAGE
      [] extension \in SUPPORTED_VIDEO_FORMATS -> VIDEO
      [] extension \in SUPPORTED_AUDIO_FORMATS -> AUDIO
      [] OTHER -> UNKNOWN
KindByGuess(guessed_type) ==
    CASE MajorType(guessed_type) = "image" -> IMAGE
      [] MajorType(guessed_type) = "video" -> VIDEO
      [] MajorType(guessed_type) = "audio" -> AUDIO
      [] OTHER -> UNKNOWN

\* C24: get_media_format gives, for every URL and MIME type, the kind of
\* the MIME type when it is in a known set, else the kind of the URL's
\* extension when that is known, else the kind of the system's guess, else
\* UNKNOWN; is_supported_format is true exactly when that kind is not
\* UNKNOWN and can_display_inline exactly when it is IMAGE.
C24_ResolutionOrder ==
    hist.op \in {"get_media_format", "is_supported_format", "can_display_inline"} =>
        LET url == hist.key[1]
            mimetype == hist.key[2]
            kind == IF KindByMime(mimetype) # UNKNOWN THEN KindByMime(mimetype)
                    ELSE IF KindByExtension(Suffix(url)) # UNKNOWN
                    THEN KindByExtension(Suffix(url))
                    ELSE KindByGuess(guess_type(url))
        IN CASE hist.op = "get_media_format" -> hist.ret = kind
             [] hist.op = "is_supported_format" -> hist.ret = (kind # UNKNOWN)
             [] hist.op = "can_display_inline" -> hist.ret = (kind = IMAGE)

\* C24 witness: a '.txt' URL with the MIME type 'image/png' is IMAGE.
C24_Witness ==
    /\ hist.op = "get_media_format"
    /\ hist.key = <<"h.txt", "image/png">>
    /\ hist.ret = IMAGE

\* C28: whatever gets, sets and evictions interleave, a file under a final
\* cache name holds the complete payload of a set: a get creates no file
\* and empties none.
C28_FinalFilesHoldSetPayloads ==
    \A p \in GlobCache(files) : files[p].data \in ConcPayloads


\* The loads that are inside "async with self._semaphore".
SlotHolders == {t \in Tasks : HoldsSlot(t)}

\* C25: the number of download slots held equals the number of loads that
\* are between taking a slot and giving it back: a load that failed,
\* returned early or was cancelled (by its owner or by the timeout of
\* preload_media) holds none, and with no load in progress all 5 are free.
C25_SlotsHeldAreLoadsInside ==
    /\ semaphore.value = DownloadSlots - Cardinality(SlotHolders)
    /\ (\A t \in Tasks : tasks[t].pc = "idle") => semaphore.value = DownloadSlots

\* C25 witness: a load has just been cancelled by its owner, and all five
\* slots are held again, one of them by a task of preload_media that is
\* deriving its thumbnail.
C25_Witness ==
    /\ hist.op = "cancelled"
    /\ Cardinality(SlotHolders) = 5
    /\ \E c \in SlotHolders : tasks[c].par # 0 /\ tasks[c].pc = "thumbnailing"
    /\ semaphore.value = 0


\* The bodies the server has for url.
Bodies(url) == {resp.body : resp \in {r \in Served(url) : r.status = "ok"}}

\* data is all of what some store call put under key: a body downloaded
\* from the key's URL, or the thumbnail made of one.
WholeEntry(key, data) ==
    \E url \in CancelUrls :
        \/ key = get_cache_key(url, FALSE) /\ data \in Bodies(url)
        \/ /\ key = get_cache_key(url, TRUE)
           /\ data \in {process_thumbnail(body) : body \in Bodies(url)}

\* The coroutine is inside DiskCache.set with the lock held.
InsideSet(t) ==
    /\ tasks[t].op = "set"
    /\ tasks[t].pc \in {"set_open", "set_write", "set_flush", "set_close"}

C22_WaiterGetsASlot ==
    \A t \in 1..NumLoads :
        (tasks[t].pc = "slot_wait") ~> (tasks[t].pc \in {"downloading", "idle"})

\* C22 witness: all five slots were taken and a load waits in the queue;
\* one of the downloads in flight has just been cancelled, so a slot is
\* free for the load at the head of the queue.
C22_Witness ==
    /\ hist.op = "cancelled"
    /\ Cardinality(SlotHolders) = 4
    /\ semaphore.value = 1
    /\ semaphore.waiters # <<>>
    /\ tasks[Head(semaphore.waiters)].pc = "slot_wait"


\* C30: every successfully downloaded payload is put in the cache. The
\* server always has the URLs of this specification, so every answer is
\* a payload: when client.get returns, the payload is in the cache under
\* the URL's key, for the image and for the video alike, whichever call
\* asked for it (so that a later load finds it and asks the server no more).
C30_DownloadedIsCached ==
    [][(tasks[1].pc = "downloading" /\ tasks'[1].pc # "downloading") =>
          get_cache_key(tasks[1].url, FALSE) \in DOMAIN memory_cache'.cache]_Moves


\* C29: a call that downloads does so through the loader _get_loader
\* handed to it, and that loader's HTTP client is open for as long as the
\* request is in flight, whatever cleanup() does meanwhile: the loader is
\* still the manager's and its client has not been closed.
C29_HandedOutLoaderStaysLive ==
    \A t \in Tasks :
        (tasks[t].top \in LoaderCalls /\ tasks[t].pc = "downloading") =>
            /\ client = "open"
            /\ tasks[t].ldr = manager.loader


\* The file of the disk tier for the URL's full-media key holds data.
OnDisk(fs, url, data) ==
    LET p == get_cache_path(get_cache_key(url, FALSE))
    IN p \in DOMAIN fs /\ fs[p].data = data

\* The memory tier holds data under key.
InMemory(mc, key, data) == key \in DOMAIN mc.cache /\ mc.cache[key].data = data

\* C31: store_full_media writes exactly one tier: a payload under 1 MiB
\* goes to the memory tier and leaves the files alone, any other (one of
\* exactly 1 MiB too) goes to the disk tier and leaves the memory tier
\* alone from call to return. store_thumbnail writes the memory tier,
\* whatever the size, and no file of the disk tier changes in it.
C31_OneTierPerStore ==
    [][/\ (tasks[1].pc = "idle" /\ tasks'[1].pc = "idle" /\ hist'.op = "store_thumbnail") =>
              /\ files' = files
              /\ InMemory(memory_cache', get_cache_key(hist'.key, TRUE), hist'.data)
       /\ (tasks[1].pc = "idle" /\ tasks'[1].pc = "idle" /\ hist'.op = "store_full") =>
              /\ Length(hist'.data) < MiB
              /\ files' = files
              /\ InMemory(memory_cache', get_cache_key(hist'.key, FALSE), hist'.data)
       /\ (tasks[1].top = "store_full" \/ tasks'[1].top = "store_full") =>
              /\ memory_cache' = memory_cache
              /\ Length(IF tasks[1].top = "store_full" THEN tasks[1].data
                        ELSE tasks'[1].data) >= MiB
       /\ (tasks[1].top = "store_full" /\ tasks'[1].pc = "idle") =>
              OnDisk(files', tasks[1].url, tasks[1].data)
       /\ files' # files =>
              \/ tasks[1].top \in {"store_full", "clear_all", "get_full"}
              \/ tasks'[1].top \in {"store_full", "clear_all", "get_full"}
              \/ hist'.op = "clear_all"
      ]_<<memory_cache, files, [t \in Tasks |-> tasks[t].pc], hist.op>>

\* C31 witness: a payload of exactly 1 MiB was stored as full media and is
\* on disk, not in the memory tier, which holds a thumbnail of 1 MiB for
\* the same URL.
C31_Witness ==
    /\ hist.op = "store_full"
    /\ hist.data = POne
    /\ OnDisk(files, "a.png", POne)
    /\ get_cache_key("a.png", FALSE) \notin DOMAIN memory_cache.cache
    /\ InMemory(memory_cache, get_cache_key("a.png", TRUE), POne)
    /\ get_cache_path(get_cache_key("a.png", TRUE)) \notin DOMAIN files


\* Both tiers are empty: no entry in the memory tier, nothing accounted,
\* no file under a final cache name; every get returns absent.
AllAbsent(mc, fs) ==
    /\ DOMAIN mc.cache = {}
    /\ mc.current_size = 0
    /\ GlobCache(fs) = {}

\* No caller is inside a store.
NoStoreInside(ts) == \A t \in Tasks : ts[t].top \notin {"store_full", "store_thumbnail"}

\* With one caller at a time: when clear_all has returned both tiers are
\* empty and nothing is accounted.
ClearedTiersEmpty == hist.op = "clear_all" => AllAbsent(memory_cache, files)

\* C39: after a clear_all that left both tiers empty, get_thumbnail and
\* get_full_media return absent and the accounted size of the memory tier
\* is 0, until a caller stores again: no step other than a store puts an
\* entry or a cache file back.
C39_ClearedStaysAbsent ==
    [][(/\ hist.op = "clear_all"
        /\ AllAbsent(memory_cache, files)
        /\ NoStoreInside(tasks) /\ NoStoreInside(tasks')
        /\ hist'.op \notin {"store_full", "store_thumbnail"}) =>
           /\ AllAbsent(memory_cache', files')
           /\ hist'.op \in {"get_full", "get_thumbnail"} => hist'.ret = None
      ]_<<memory_cache, files, hist.op>>


\* C35: thumbnail entries and full-media entries never alias. The
\* thumbnails stored by store_thumbnail are the payloads of 1 MiB and
\* nothing else is: get_full_media and load_media(url, False) never return
\* one, and get_thumbnail returns nothing else, whatever the URLs.
C35_TiersNeverAlias ==
    /\ hist.op \in {"get_full", "load_media"} => hist.ret # POne
    /\ hist.op = "get_thumbnail" => hist.ret \in {None, POne}

\* C35 witness: the thumbnail of "a.png" is in the memory tier under the
\* key "thumb_a.png", and get_full_media("thumb_a.png") returned absent.
C35_Witness ==
    /\ hist.op = "get_full"
    /\ hist.key = "thumb_a.png"
    /\ hist.ret = None
    /\ InMemory(memory_cache, get_cache_key("a.png", TRUE), POne)
    /\ Chars("thumb_a.png") \in DOMAIN memory_cache.cache


FailedSetCleansUp ==
    [][(tasks[1].op = "set" /\ tasks'[1].pc = "idle" /\ hist'.ret # None) =>
           /\ hist'.ret = MediaCacheError
           /\ \A p \in DOMAIN files' : p[2] # ".tmp"
      ]_<<files, [t \in Tasks |-> tasks[t].pc]>>

\* C38: a set whose write fails raises MediaCacheError, leaves no temp
\* file, and the entry stored under the key before the call keeps its
\* payload: when a set on a key succeeded and the next operation to end is
\* a failed set on the same key, the file of the key holds what the first
\* set stored.
C38_FailedSetKeepsOldEntry ==
    [][(/\ hist.op = "set" /\ hist.ret = None
        /\ hist'.op = "set" /\ hist'.ret # None
        /\ hist'.key = hist.key) =>
           /\ hist'.ret = MediaCacheError
           /\ \A p \in DOMAIN files' : p[2] # ".tmp"
           /\ get_cache_path(hist.key) \in DOMAIN files'
           /\ files'[get_cache_path(hist.key)].data = hist.data
      ]_<<hist.op, hist.ret, hist.data>>


\* preload_media has returned None and nothing of it is left: no task of
\* it exists, running or done, and no download slot is held or waited for.
PreloadOver ==
    /\ tasks[1].pc = "idle"
    /\ \A c \in Tasks : tasks[c].par # 1
    /\ hist.op = "preload_media" /\ hist.ret = None
    /\ semaphore = [value |-> DownloadSlots, waiters |-> <<>>]

\* C34: preload_media always terminates: a call that is waiting for its
\* tasks returns None in the end, also when a download never completes,
\* and after the return none of its tasks is left running.
C34_PreloadTerminates == (tasks[1].pc = "gathering") ~> PreloadOver

\* C34 witness: preload_media has returned after its timeout fired while
\* the task of "a.png" was deriving the thumbnail: the download is cached,
\* the thumbnail is not, and no task is left.
C34_Witness ==
    /\ PreloadOver
    /\ \A c \in Tasks : tasks[c].pc = "idle"
    /\ client = "open"
    /\ get_cache_key("a.png", FALSE) \in DOMAIN memory_cache.cache
    /\ get_cache_key("a.png", TRUE) \notin DOMAIN memory_cache.cache


\* Coroutine 1 of ts is inside open_media_external.
InOme(ts) == ts[1].mgr = "open_media_external"

\* The cache holds bytes for the URL's full media.
CachedFull(mc, fs, url) ==
    \/ Truthy(EntriesOf(mc, fs, url).full)
    \/ Truthy(EntriesOf(mc, fs, url).disk)

OpenMoves ==
    <<[t \in Tasks |-> tasks[t].pc], hist.op, hist.ret, external_viewer.temp_files,
      Len(external_viewer.procs), memory_cache, files>>

\* C32: open_media_external looks in the cache first and calls the Loader
\* only on a miss; whatever the Loader does, the call goes to the
\* dispatcher once, without bytes when the Loader failed; a call that goes
\* straight to the viewer with the URL has touched neither cache nor
\* Loader; the call returns True or False, True exactly when a viewer was
\* started, and never raises.
C32_OpenExternalOrder ==
    [][/\ (InOme(tasks') /\ tasks'[1].pc = "ome_load") =>
              ~CachedFull(memory_cache, files, tasks'[1].url)
       /\ (InOme(tasks') /\ tasks'[1].top = "load_media") =>
              (tasks[1].pc = "ome_load" \/ tasks[1].top = "load_media")
       /\ (InOme(tasks) /\ tasks[1].top = "load_media" /\ tasks'[1].top # "load_media") =>
              /\ \/ tasks'[1].pc = "launching"
                 \/ tasks'[1].pc = "idle" /\ hist'.op = "open_media_external"
              /\ ~CachedFull(memory_cache', files', tasks[1].url) =>
                     external_viewer'.temp_files = external_viewer.temp_files
       /\ (tasks[1].pc = "idle" /\ InOme(tasks') /\ tasks'[1].pc = "launching"
             /\ external_viewer'.temp_files = external_viewer.temp_files) =>
              /\ memory_cache' = memory_cache /\ files' = files
              /\ client' = client /\ manager' = manager
       /\ (InOme(tasks) /\ tasks[1].pc = "launching" /\ tasks'[1].pc # "launching") =>
              /\ tasks'[1].pc = "idle" /\ hist'.op = "open_media_external"
              /\ external_viewer'.temp_files = external_viewer.temp_files
              /\ hist'.ret = IF Len(external_viewer'.procs) > Len(external_viewer.procs)
                             THEN True ELSE False
       /\ (InOme(tasks) \/ InOme(tasks')) =>
              /\ Len(external_viewer'.temp_files) <= Len(external_viewer.temp_files) + 1
              /\ Len(external_viewer'.temp_files) > Len(external_viewer.temp_files) =>
                     tasks[1].pc # "launching" /\ tasks'[1].pc = "launching"
       /\ hist'.op = "open_media_external" => hist'.ret \in {True, False}
      ]_OpenMoves

\* C32 witness: the cache had nothing for "a.png", the Loader was called
\* and its download failed, and the viewer is being launched on the URL,
\* no temp file made.
C32_Witness ==
    /\ InOme(tasks) /\ tasks[1].pc = "launching"
    /\ tasks[1].url = "a.png"
    /\ tasks[1].ldr # 0
    /\ client = "open"
    /\ ~CachedFull(memory_cache, files, "a.png")
    /\ external_viewer.temp_files = <<>>


\* The files the dispatcher tracks.
Tracked(ev) == {ev.temp_files[i] : i \in DOMAIN ev.temp_files}

TempMoves ==
    <<[t \in Tasks |-> tasks[t].pc], hist.op, hist.ret, external_viewer.temp_files,
      external_viewer.tmpdir>>

AttachmentOf(url) == CHOOSE a \in RenderAttachments : a.url = url
KindOf(url) == get_media_format(url, AttachmentOf(url).type)

\* The widget classes the policy allows for a kind.
WidgetsFor(kind) ==
    CASE kind = IMAGE -> {ImagePreview, ImagePlaceholder}
      [] kind = VIDEO -> {VideoPlaceholder}
      [] kind = AUDIO -> {AudioPlaceholder}
      [] OTHER -> {GenericPlaceholder}

\* C36: with previews enabled the widget of get_media_widget goes by the
\* classified kind of the attachment: the inline image or the image
\* placeholder for IMAGE (the inline image only when bytes were obtained,
\* the placeholder for a call that loads nothing), the video placeholder
\* for VIDEO, the audio placeholder for AUDIO, the generic placeholder for
\* UNKNOWN; video and audio never get the inline representation.
C36_WidgetByKind ==
    hist.op = "get_media_widget" =>
        /\ hist.ret \in WidgetsFor(KindOf(hist.key))
        /\ hist.ret = ImagePreview =>
               \/ Truthy(EntriesOf(memory_cache, files, hist.key).full)
               \/ Truthy(EntriesOf(memory_cache, files, hist.key).thumb)


\* The whole policy, the inline image's bytes included, for the attachments
\* whose URL alone gives the kind.
PolicyByKindOfUrl ==
    (hist.op = "get_media_widget" /\ KindOf(hist.key) = get_media_format(hist.key, "")) =>
        /\ hist.ret \in WidgetsFor(KindOf(hist.key))
        /\ hist.ret = ImagePreview =>
               \/ Truthy(EntriesOf(memory_cache, files, hist.key).full)
               \/ Truthy(EntriesOf(memory_cache, files, hist.key).thumb)


\* An image told by its URL was rendered inline.
InlineImageShown == hist.op = "get_media_widget" /\ hist.key = "a.png" /\ hist.ret = ImagePreview
====
